---- MODULE Spec2Model ----
(***************************************************************************)
(* Streaming extraction / filter / schema-inference engine of iomaps.      *)
(*                                                                         *)
(*   SpecAdapter : StreamingPy7zIO (core/streaming_7z.py), byte level.     *)
(*                 The archive collaborator pushes the bytes of one entry  *)
(*                 in chunks of its own choosing, then the caller flushes. *)
(***************************************************************************)
EXTENDS Integers, Sequences, FiniteSets, TLC

(* ------------------------------ bounds -------------------------------- *)
\* longest archive entry, in bytes
MaxInput == 4
\* largest chunk the archive collaborator pushes in one write()
MaxChunk == 4

(* ------------------------------ bytes --------------------------------- *)
\* b"\n"
NL == 10
\* the byte values an entry is made of: "\n", "1", and 0xC3 0xA9 (the UTF-8
\* encoding of U+00E9); 0xA9 on its own, or 0xC3 not followed by 0xA9, is
\* not valid UTF-8
ByteValues == {10, 49, 195, 169}

Min(a, b) == IF a < b THEN a ELSE b

\* all sequences over S of length 0..n
SeqsUpTo(S, n) == UNION {[1..k -> S] : k \in 0..n}

\* bytes.find(b"\n"): index of the first newline, 0 when there is none
Find(buf) ==
    IF \E i \in 1..Len(buf) : buf[i] = NL
    THEN CHOOSE i \in 1..Len(buf) : buf[i] = NL /\ \A j \in 1..(i-1) : buf[j] # NL
    ELSE 0

\* bytes.decode("utf-8") (strict): ok = FALSE stands for UnicodeDecodeError
RECURSIVE Utf8Decode(_)
Utf8Decode(bs) ==
    IF bs = <<>> THEN [ok |-> TRUE, chars |-> <<>>]
    ELSE IF bs[1] < 128
         THEN LET r == Utf8Decode(Tail(bs))
              IN  [ok |-> r.ok, chars |-> IF r.ok THEN <<bs[1]>> \o r.chars ELSE <<>>]
    ELSE IF bs[1] = 195 /\ Len(bs) >= 2 /\ bs[2] >= 128 /\ bs[2] < 192
         THEN LET r == Utf8Decode(Tail(Tail(bs)))
              IN  [ok |-> r.ok,
                   chars |-> IF r.ok THEN <<64 + bs[2]>> \o r.chars ELSE <<>>]
    ELSE [ok |-> FALSE, chars |-> <<>>]

\* str.rstrip("\n")
RECURSIVE RStripNL(_)
RStripNL(s) ==
    IF s # <<>> /\ s[Len(s)] = NL THEN RStripNL(SubSeq(s, 1, Len(s) - 1)) ELSE s

\* StreamingPy7zIO.extract_lines: the loop, started with lines = [].
\* raised = TRUE: line.decode raised; the slice was already taken off the
\* buffer and the local list of lines is lost with the frame.
RECURSIVE ExtractLoop(_, _)
ExtractLoop(buf, lines) ==
    LET i == Find(buf) IN
    IF i = 0 THEN [buffer |-> buf, lines |-> lines, raised |-> FALSE]
    ELSE LET line == SubSeq(buf, 1, i)
             rest == SubSeq(buf, i + 1, Len(buf))
             dec  == Utf8Decode(line)
         IN  IF ~dec.ok
             THEN [buffer |-> rest, lines |-> <<>>, raised |-> TRUE]
             ELSE ExtractLoop(rest, Append(lines, [type |-> "str", data |-> RStripNL(dec.chars)]))

extract_lines(buf) == ExtractLoop(buf, <<>>)

(* --------------------------- python values ---------------------------- *)
\* Python's None (a missing return value, a JSON null)
None == [kind |-> "None"]

\* str.lower(), character by character
UpperChars == <<"A","B","C","D","E","F","G","H","I","J","K","L","M",
                "N","O","P","Q","R","S","T","U","V","W","X","Y","Z">>
LowerChars == <<"a","b","c","d","e","f","g","h","i","j","k","l","m",
                "n","o","p","q","r","s","t","u","v","w","x","y","z">>
LowerChar(c) ==
    IF \E i \in 1..26 : UpperChars[i] = c
    THEN LowerChars[CHOOSE i \in 1..26 : UpperChars[i] = c]
    ELSE c
\* a property name is the sequence of its characters
lower(key) == [i \in 1..Len(key) |-> LowerChar(key[i])]

\* str(n) for n >= 0
DigitChars == <<"0","1","2","3","4","5","6","7","8","9">>
RECURSIVE Str(_)
Str(n) == IF n < 10 THEN <<DigitChars[n + 1]>>
          ELSE Str(n \div 10) \o <<DigitChars[(n % 10) + 1]>>

\* f"{key}_{suffix}"
WithSuffix(key, suffix) == key \o <<"_">> \o Str(suffix)

\* A dict is the sequence of its items [k, v] in insertion order.
DictKeys(d) == [i \in 1..Len(d) |-> d[i].k]
DictHas(d, key) == \E i \in 1..Len(d) : d[i].k = key
DictIndex(d, key) == CHOOSE i \in 1..Len(d) : d[i].k = key
\* d[key]
DictAt(d, key) == d[DictIndex(d, key)].v
\* d.get(key)
DictGet(d, key) == IF DictHas(d, key) THEN DictAt(d, key) ELSE None
\* d.get(key, default)
DictGetOr(d, key, default) == IF DictHas(d, key) THEN DictAt(d, key) ELSE default
\* d[key] = value: an existing key keeps its position, a new one goes last
DictSet(d, key, value) ==
    IF DictHas(d, key)
    THEN [i \in 1..Len(d) |-> IF d[i].k = key THEN [k |-> key, v |-> value] ELSE d[i]]
    ELSE Append(d, [k |-> key, v |-> value])
\* the dict left by d.pop(key)
DictWithout(d, key) == SelectSeq(d, LAMBDA it : it.k # key)

\* type(value).__name__ of a decoded JSON property value, given as its JSON text
TypeName(value) ==
    CASE value = "null" -> "NoneType"
      [] value \in {"1", "2", "3"} -> "int"
      [] value \in {"2.2"} -> "float"
      [] value \in {"true"} -> "bool"
      [] OTHER -> "str"

\* sorted() on geometry type names: rank in string order
GeomTypeNames == <<"GeometryCollection", "LineString", "MultiLineString",
                   "MultiPoint", "MultiPolygon", "Point", "Polygon">>
RECURSIVE SortedFrom(_, _)
SortedFrom(i, S) ==
    IF i > Len(GeomTypeNames) THEN <<>>
    ELSE (IF GeomTypeNames[i] \in S THEN <<GeomTypeNames[i]>> ELSE <<>>)
         \o SortedFrom(i + 1, S)
\* sorted() after folding a single-part type into its multi-part type
sortedConsolidated(S) ==
    SortedFrom(1, {t \in S : "Multi" \o t \notin S})
sorted(S) == SortedFrom(1, S)

(* -------------------- SchemaWriter.get_schema ------------------------- *)
\* the while loop: the first suffix >= `suffix` whose lowercased name is unseen
RECURSIVE ProbeSuffix(_, _, _)
ProbeSuffix(key, suffix, seen_lower) ==
    IF DictHas(seen_lower, lower(WithSuffix(key, suffix)))
    THEN ProbeSuffix(key, suffix + 1, seen_lower)
    ELSE suffix

\* the body of the first loop for one key; st = [seen_lower, renames]
RenameStepForgetful(st, key) ==
    LET key_lower == lower(key) IN
    IF ~DictHas(st.seen_lower, key_lower)
    THEN [seen_lower |-> DictSet(st.seen_lower, key_lower, key), renames |-> st.renames]
    ELSE LET new_key == WithSuffix(key, ProbeSuffix(key, 2, st.seen_lower))
         IN  [seen_lower |-> st.seen_lower,
              renames    |-> DictSet(st.renames, key, new_key)]
RenameStep(st, key) ==
    LET key_lower == lower(key) IN
    IF ~DictHas(st.seen_lower, key_lower)
    THEN [seen_lower |-> DictSet(st.seen_lower, key_lower, key), renames |-> st.renames]
    ELSE LET new_key == WithSuffix(key, ProbeSuffix(key, 2, st.seen_lower))
         IN  [seen_lower |-> DictSet(st.seen_lower, lower(new_key), new_key),
              renames    |-> DictSet(st.renames, key, new_key)]

\* the first loop over self.properties.keys(), from position i on
RECURSIVE RenameLoop(_, _, _)
RenameLoop(keys, i, st) ==
    IF i > Len(keys) THEN st ELSE RenameLoop(keys, i + 1, RenameStep(st, keys[i]))

DetectRenames(props) ==
    RenameLoop(DictKeys(props), 1, [seen_lower |-> <<>>, renames |-> <<>>]).renames

\* the unification without the int/float rule
UnifyTypesKeepInt(types) ==
    LET t2 == IF "NoneType" \in types /\ Cardinality(types) = 2
              THEN types \ {"NoneType"} ELSE types
    IN  IF Cardinality(t2) = 1
        THEN LET inferred_type == CHOOSE t \in t2 : TRUE
             IN  IF inferred_type = "NoneType" THEN "str" ELSE inferred_type
        ELSE "str"
\* the type unification of one property's set of observed type names
UnifyTypes(types) ==
    LET t1 == IF "int" \in types /\ "float" \in types THEN types \ {"int"} ELSE types
        t2 == IF "NoneType" \in t1 /\ Cardinality(t1) = 2 THEN t1 \ {"NoneType"} ELSE t1
    IN  IF Cardinality(t2) = 1
        THEN LET inferred_type == CHOOSE t \in t2 : TRUE
             IN  IF inferred_type = "NoneType" THEN "str" ELSE inferred_type
        ELSE "str"

\* the second loop over self.properties.items(), from position i on
RECURSIVE OutPropertiesLoop(_, _, _, _)
OutPropertiesLoop(props, renames, i, out_properties) ==
    IF i > Len(props) THEN out_properties
    ELSE LET out_key == DictGetOr(renames, props[i].k, props[i].k)
         IN  OutPropertiesLoop(props, renames, i + 1,
                               DictSet(out_properties, out_key, UnifyTypes(props[i].v)))

\* SchemaWriter.get_schema: (schema, renames); schema = None on failure
get_schema(self_geom_types, self_properties) ==
    IF Cardinality(self_geom_types) = 0
    THEN [schema |-> None, renames |-> <<>>]
    ELSE LET renames == DetectRenames(self_properties)
         IN  [schema  |-> [kind |-> "schema",
                           geometry |-> sorted(self_geom_types),
                           properties |-> OutPropertiesLoop(self_properties, renames, 1, <<>>)],
              renames |-> renames]

(* ------------------------ lines and features -------------------------- *)
\* A line is what the adapter hands to filter.process:
\*   [text |-> "json", value |-> v]   a text json.loads decodes to v
\*   [text |-> "garbage"]             a text json.loads rejects (JSONDecodeError)
\*   [text |-> "undecodable"]         bytes that are not valid UTF-8; only
\*                                    flush_last_line forwards undecoded bytes
\* A decoded value v is
\*   [kind |-> "number"]  [kind |-> "list"]
\*   [kind |-> "object", geometry |-> g, properties |-> p]
\* g: [kind |-> "absent"] (no such key), None, or
\*    [kind |-> "geom", type, x1, y1, x2, y2, validity]: the geometry covering
\*    the closed axis-aligned rectangle [x1,x2] x [y1,y2] (a Point has
\*    x1 = x2 and y1 = y2); validity is "valid", "fixable" (is_valid is False,
\*    buffer(0) repairs it) or "unfixable"; nesting is the depth of the
\*    coordinates array around its positions
\* p: [kind |-> "absent"], None, [kind |-> "number"] (a non-map, truthy),
\*    or [kind |-> "dict", items |-> d]
Absent == [kind |-> "absent"]
JsonLine(v) == [text |-> "json", value |-> v]
Garbage == [text |-> "garbage"]
Undecodable == [text |-> "undecodable"]
Feature(g, p) == [kind |-> "object", geometry |-> g, properties |-> p]
Dict(d) == [kind |-> "dict", items |-> d]
\* how many lists enclose the positions of a geometry of this type
NestingOf(t) ==
    CASE t = "Point" -> 0
      [] t \in {"LineString", "MultiPoint"} -> 1
      [] t \in {"Polygon", "MultiLineString"} -> 2
      [] OTHER -> 3
Geom(t, x1, y1, x2, y2, validity) ==
    [kind |-> "geom", type |-> t, x1 |-> x1, y1 |-> y1, x2 |-> x2, y2 |-> y2,
     validity |-> validity, nesting |-> NestingOf(t)]
Point(x, y) == Geom("Point", x, y, x, y, "valid")
\* a geometry whose coordinates are [] (or [[]]): it covers no point
Empty(t) == Geom(t, 1, 1, 0, 0, "valid")
Box(x1, y1, x2, y2) == Geom("Polygon", x1, y1, x2, y2, "valid")

\* json.loads(line): exc is "" on success
json_loads(line) ==
    CASE line.text = "json" -> [exc |-> "", value |-> line.value]
      [] line.text = "garbage" -> [exc |-> "JSONDecodeError", value |-> None]
      [] OTHER -> [exc |-> "UnicodeDecodeError", value |-> None]

\* truth value of a decoded "properties" / "geometry" entry
Truthy(v) ==
    CASE v.kind \in {"absent", "None"} -> FALSE
      [] v.kind = "dict" -> v.items # <<>>
      [] OTHER -> TRUE

\* feature.get("properties"); raises (exc) when feature is not a dict
GetProperties(feature) ==
    IF feature.kind # "object" THEN [exc |-> TRUE, props |-> None]
    ELSE [exc |-> FALSE,
          props |-> IF feature.properties.kind = "absent" THEN None
                    ELSE feature.properties]

(* ----------------------------- BaseFilter ------------------------------ *)
\* the loop of _apply_renames over property_renames.items(), from position i
RECURSIVE ApplyRenamesLoop(_, _, _)
ApplyRenamesLoop(renames, i, props) ==
    IF i > Len(renames) THEN props
    ELSE LET old_key == renames[i].k
             new_key == renames[i].v
         IN  ApplyRenamesLoop(renames, i + 1,
                 IF DictHas(props, old_key)
                 THEN DictSet(DictWithout(props, old_key), new_key, DictAt(props, old_key))
                 ELSE props)

\* BaseFilter._apply_renames: [exc, feature]
apply_renames(renames, feature) ==
    IF renames = <<>> THEN [exc |-> FALSE, feature |-> feature]
    ELSE LET g == GetProperties(feature) IN
         IF g.exc THEN [exc |-> TRUE, feature |-> feature]
         ELSE IF ~Truthy(g.props) THEN [exc |-> FALSE, feature |-> feature]
         ELSE IF g.props.kind # "dict" THEN [exc |-> TRUE, feature |-> feature]
         ELSE [exc |-> FALSE,
               feature |-> [feature EXCEPT !.properties =
                               Dict(ApplyRenamesLoop(renames, 1, g.props.items))]]

\* {key: props.get(key) for key in self.schema_properties}
Normalized(schema_props, items) ==
    [i \in 1..Len(schema_props) |->
        [k |-> schema_props[i].k, v |-> DictGetOr(items, schema_props[i].k, "null")]]

\* BaseFilter._normalize_properties: [exc, feature]
normalize_properties(schema_props, feature) ==
    IF schema_props = <<>> THEN [exc |-> FALSE, feature |-> feature]
    ELSE LET g == GetProperties(feature) IN
         IF g.exc THEN [exc |-> TRUE, feature |-> feature]
         ELSE IF ~Truthy(g.props)
              THEN [exc |-> FALSE,
                    feature |-> [feature EXCEPT !.properties =
                                    Dict(Normalized(schema_props, <<>>))]]
         ELSE IF g.props.kind # "dict" THEN [exc |-> TRUE, feature |-> feature]
         ELSE [exc |-> FALSE,
               feature |-> [feature EXCEPT !.properties =
                               Dict(Normalized(schema_props, g.props.items))]]

(* ------------------------ geometry collaborator ------------------------ *)
\* shape(feature["geometry"]): [exc, shape]
ShapeOf(feature) ==
    IF feature.kind # "object" THEN [exc |-> TRUE, shape |-> None]
    ELSE IF feature.geometry.kind # "geom" THEN [exc |-> TRUE, shape |-> None]
    ELSE [exc |-> FALSE, shape |-> feature.geometry]

\* helpers.fix_if_required: [exc, shape]
fix_if_required(p) ==
    IF p.validity = "valid" THEN [exc |-> FALSE, shape |-> p]
    ELSE IF p.validity = "fixable"
         THEN [exc |-> FALSE, shape |-> [p EXCEPT !.validity = "valid"]]
    ELSE [exc |-> TRUE, shape |-> p]

\* prepared.intersects(shape): the closed sets share at least one point
\* (shape() of empty coordinates is an empty geometry, which shares none)
intersects(filter_shape, p) ==
    /\ p.x1 <= p.x2 /\ p.y1 <= p.y2
    /\ p.x1 <= filter_shape.x2 /\ filter_shape.x1 <= p.x2
    /\ p.y1 <= filter_shape.y2 /\ filter_shape.y1 <= p.y2

(* ------------------------------ filters -------------------------------- *)
\* The outcome of one filter.process(line) call on a filter whose counters
\* are c = [count, passed, unparsed, error_count]:
\*   ret    the returned value (None or the feature)
\*   raised TRUE when an exception leaves process
\*   c      the counters afterwards
Outcome(ret, raised, c) == [ret |-> ret, raised |-> raised, c |-> c]

\* the closed rectangle p lies inside the closed rectangle filter_shape
within(filter_shape, p) ==
    /\ filter_shape.x1 <= p.x1 /\ p.x2 <= filter_shape.x2
    /\ filter_shape.y1 <= p.y1 /\ p.y2 <= filter_shape.y2

\* ShapeFilter.process testing containment instead of intersection
ShapeFilter_process_within(filter_shape, renames, schema_props, c, line) ==
    LET c1  == [c EXCEPT !.count = @ + 1]
        dec == json_loads(line)
    IN
    IF dec.exc = "JSONDecodeError"
    THEN Outcome(None, FALSE, [c1 EXCEPT !.unparsed = @ + 1])
    ELSE IF dec.exc # "" THEN Outcome(None, TRUE, c1)
    ELSE LET feature == dec.value
             sh      == ShapeOf(feature)
             failed  == Outcome(None, FALSE, [c1 EXCEPT !.error_count = @ + 1])
         IN
         IF sh.exc THEN failed
         ELSE LET fx == fix_if_required(sh.shape) IN
              IF fx.exc THEN failed
              ELSE IF within(filter_shape, fx.shape)
                   THEN LET c2 == [c1 EXCEPT !.passed = @ + 1]
                            rn == apply_renames(renames, feature)
                            nm == normalize_properties(schema_props, rn.feature)
                        IN  IF rn.exc \/ nm.exc
                            THEN Outcome(None, FALSE, [c2 EXCEPT !.error_count = @ + 1])
                            ELSE Outcome(nm.feature, FALSE, c2)
                   ELSE Outcome(None, FALSE, c1)

\* spatial_filter.ShapeFilter.process
ShapeFilter_process(filter_shape, renames, schema_props, c, line) ==
    LET c1  == [c EXCEPT !.count = @ + 1]
        dec == json_loads(line)
    IN
    IF dec.exc = "JSONDecodeError"
    THEN Outcome(None, FALSE, [c1 EXCEPT !.unparsed = @ + 1])
    ELSE IF dec.exc # "" THEN Outcome(None, TRUE, c1)
    ELSE LET feature == dec.value
             sh      == ShapeOf(feature)
             failed  == Outcome(None, FALSE, [c1 EXCEPT !.error_count = @ + 1])
         IN
         IF sh.exc THEN failed
         ELSE LET fx == fix_if_required(sh.shape) IN
              IF fx.exc THEN failed
              ELSE IF intersects(filter_shape, fx.shape)
                   THEN LET c2 == [c1 EXCEPT !.passed = @ + 1]
                            rn == apply_renames(renames, feature)
                            nm == normalize_properties(schema_props, rn.feature)
                        IN  IF rn.exc \/ nm.exc
                            THEN Outcome(None, FALSE, [c2 EXCEPT !.error_count = @ + 1])
                            ELSE Outcome(nm.feature, FALSE, c2)
                   ELSE Outcome(None, FALSE, c1)

\* spatial_filter.PassThroughFilter.process
PassThroughFilter_process(renames, schema_props, c, line) ==
    LET c1  == [c EXCEPT !.count = @ + 1]
        dec == json_loads(line)
    IN
    IF dec.exc = "JSONDecodeError"
    THEN Outcome(None, FALSE, [c1 EXCEPT !.unparsed = @ + 1])
    ELSE IF dec.exc # "" THEN Outcome(None, TRUE, c1)
    ELSE LET c2 == [c1 EXCEPT !.passed = @ + 1]
             rn == apply_renames(renames, dec.value)
             nm == normalize_properties(schema_props, rn.feature)
         IN  IF rn.exc \/ nm.exc
             THEN Outcome(None, TRUE, c2)
             ELSE Outcome(nm.feature, FALSE, c2)

\* core.infer_schema.SchemaFilter.process
SchemaFilter_process(c, line) ==
    LET c1  == [c EXCEPT !.count = @ + 1]
        dec == json_loads(line)
    IN
    IF dec.exc = "JSONDecodeError"
    THEN Outcome(None, FALSE, [c1 EXCEPT !.unparsed = @ + 1])
    ELSE IF dec.exc # "" THEN Outcome(None, TRUE, c1)
    ELSE Outcome(dec.value, FALSE, [c1 EXCEPT !.passed = @ + 1])

(* ------------------------------ writers -------------------------------- *)
\* the loop of SchemaWriter.write over feature["properties"].items()
RECURSIVE CollectLoop(_, _, _)
CollectLoop(items, i, properties) ==
    IF i > Len(items) THEN properties
    ELSE CollectLoop(items, i + 1,
             DictSet(properties, items[i].k,
                     DictGetOr(properties, items[i].k, {}) \cup {TypeName(items[i].v)}))

\* SchemaWriter.write keeping only the properties of the feature at hand
SchemaWriter_write_forgetful(self_geom_types, self_properties, feature) ==
    IF feature.kind = "number"
    THEN [exc |-> TRUE, geom_types |-> self_geom_types, properties |-> self_properties]
    ELSE IF feature.kind # "object"
    THEN [exc |-> FALSE, geom_types |-> self_geom_types, properties |-> self_properties]
    ELSE LET gt == IF Truthy(feature.geometry)
                   THEN self_geom_types \cup {feature.geometry.type}
                   ELSE self_geom_types
         IN  IF ~Truthy(feature.properties)
             THEN [exc |-> FALSE, geom_types |-> gt, properties |-> self_properties]
             ELSE IF feature.properties.kind # "dict"
             THEN [exc |-> TRUE, geom_types |-> gt, properties |-> self_properties]
             ELSE [exc |-> FALSE, geom_types |-> gt,
                   properties |-> CollectLoop(feature.properties.items, 1, <<>>)]

\* core.infer_schema.SchemaWriter.write: [exc, geom_types, properties].
\* When the second statement raises, the first has already taken effect.
SchemaWriter_write(self_geom_types, self_properties, feature) ==
    IF feature.kind = "number"
    THEN [exc |-> TRUE, geom_types |-> self_geom_types, properties |-> self_properties]
    ELSE IF feature.kind # "object"
    THEN [exc |-> FALSE, geom_types |-> self_geom_types, properties |-> self_properties]
    ELSE LET gt == IF Truthy(feature.geometry)
                   THEN self_geom_types \cup {feature.geometry.type}
                   ELSE self_geom_types
         IN  IF ~Truthy(feature.properties)
             THEN [exc |-> FALSE, geom_types |-> gt, properties |-> self_properties]
             ELSE IF feature.properties.kind # "dict"
             THEN [exc |-> TRUE, geom_types |-> gt, properties |-> self_properties]
             ELSE [exc |-> FALSE, geom_types |-> gt,
                   properties |-> CollectLoop(feature.properties.items, 1, self_properties)]

\* core.infer_schema.SchemaWriter.size
SchemaWriter_size == 0

\* core.writers.FionaWriter.write: the collection rejects a record that is
\* not a feature object
FionaWriter_write(self_written, feature) ==
    IF feature.kind # "object"
    THEN [exc |-> TRUE, written |-> self_written]
    ELSE [exc |-> FALSE, written |-> Append(self_written, feature)]

(* --------------------- filter_7z.py (older module) ---------------------- *)
Max(a, b) == IF a > b THEN a ELSE b

\* filter_shape.context.intersection(feature_shape).__geo_interface__ for two
\* intersecting rectangles: their common rectangle, typed by its dimension
intersection(filter_shape, p) ==
    LET x1 == Max(filter_shape.x1, p.x1)
        y1 == Max(filter_shape.y1, p.y1)
        x2 == Min(filter_shape.x2, p.x2)
        y2 == Min(filter_shape.y2, p.y2)
        t  == IF x1 < x2 /\ y1 < y2 THEN "Polygon"
              ELSE IF x1 < x2 \/ y1 < y2 THEN "LineString"
              ELSE "Point"
    IN  Geom(t, x1, y1, x2, y2, "valid")

\* filter_7z.ShapeFilter._geom_type_matches
geom_type_matches(limit, strict, feature_geom_type) ==
    IF limit = None THEN TRUE
    ELSE IF strict THEN feature_geom_type = limit.name
    ELSE \/ limit.name = feature_geom_type
         \/ limit.name = "Polygon" /\ feature_geom_type = "MultiPolygon"
         \/ limit.name = "LineString" /\ feature_geom_type = "MultiLineString"
         \/ limit.name = "Point" /\ feature_geom_type = "MultiPoint"

\* a requested geometry type
TypeNamed(t) == [kind |-> "type", name |-> t]

\* filter_7z.ShapeFilter.process clipping whatever self.clip says
LegacyShapeFilter_process_always_clip(filter_shape, do_clip, limit, strict, c, line) ==
    LET c1  == [c EXCEPT !.count = @ + 1]
        dec == json_loads(line)
    IN
    IF dec.exc = "JSONDecodeError"
    THEN Outcome(None, FALSE, [c1 EXCEPT !.unparsed = @ + 1])
    ELSE IF dec.exc # "" THEN Outcome(None, TRUE, c1)
    ELSE LET feature == dec.value
             sh      == ShapeOf(feature)
         IN
         IF sh.exc THEN Outcome(None, TRUE, c1)
         ELSE IF ~geom_type_matches(limit, strict, feature.geometry.type)
         THEN Outcome(None, FALSE, c1)
         ELSE LET fx == fix_if_required(sh.shape) IN
              IF fx.exc THEN Outcome(None, FALSE, [c1 EXCEPT !.error_count = @ + 1])
              ELSE IF intersects(filter_shape, fx.shape)
                   THEN Outcome([feature EXCEPT !.geometry =
                                    intersection(filter_shape, fx.shape)],
                                FALSE, [c1 EXCEPT !.passed = @ + 1])
                   ELSE Outcome(None, FALSE, c1)

\* filter_7z.ShapeFilter.process; feature['geometry']['type'] is evaluated
\* outside the try block
LegacyShapeFilter_process(filter_shape, do_clip, limit, strict, c, line) ==
    LET c1  == [c EXCEPT !.count = @ + 1]
        dec == json_loads(line)
    IN
    IF dec.exc = "JSONDecodeError"
    THEN Outcome(None, FALSE, [c1 EXCEPT !.unparsed = @ + 1])
    ELSE IF dec.exc # "" THEN Outcome(None, TRUE, c1)
    ELSE LET feature == dec.value
             sh      == ShapeOf(feature)
         IN
         IF sh.exc THEN Outcome(None, TRUE, c1)
         ELSE IF ~geom_type_matches(limit, strict, feature.geometry.type)
         THEN Outcome(None, FALSE, c1)
         ELSE LET fx == fix_if_required(sh.shape) IN
              IF fx.exc THEN Outcome(None, FALSE, [c1 EXCEPT !.error_count = @ + 1])
              ELSE IF intersects(filter_shape, fx.shape)
                   THEN Outcome(IF do_clip
                                THEN [feature EXCEPT !.geometry =
                                         intersection(filter_shape, fx.shape)]
                                ELSE feature,
                                FALSE, [c1 EXCEPT !.passed = @ + 1])
                   ELSE Outcome(None, FALSE, c1)

\* a sink that hands every feature on as it is, whatever the schema says
convert_feature_unchecked(self_schema, feature) ==
    feature

\* filter_7z.FionaWriter.convert_feature: the feature to write, or None
convert_feature(self_schema, feature) ==
    LET geom_type == feature.geometry.type
        schema_geom_type == self_schema.geometry
        wrapped == [feature EXCEPT !.geometry.type = schema_geom_type,
                                   !.geometry.nesting = @ + 1]
    IN  IF geom_type = schema_geom_type THEN feature
        ELSE IF schema_geom_type = "MultiPolygon" /\ geom_type = "Polygon" THEN wrapped
        ELSE IF schema_geom_type = "MultiLineString" /\ geom_type = "LineString" THEN wrapped
        ELSE IF schema_geom_type = "MultiPoint" /\ geom_type = "Point" THEN wrapped
        ELSE None

\* filter_7z.FionaWriter.write: the features written so far afterwards
LegacyFionaWriter_write(self_schema, self_written, feature) ==
    LET converted == convert_feature(self_schema, feature) IN
    IF converted = None THEN self_written ELSE Append(self_written, converted)

(* ------------------------ get_shape_from_bounds ------------------------ *)
\* a str value, as the sequence of its characters
PyStr(chars) == [kind |-> "str", chars |-> chars]

\* s.split(","): one more element than there are commas
RECURSIVE SplitFrom(_, _, _)
SplitFrom(s, i, cur) ==
    IF i > Len(s) THEN <<cur>>
    ELSE IF s[i] = "," THEN <<cur>> \o SplitFrom(s, i + 1, <<>>)
    ELSE SplitFrom(s, i + 1, Append(cur, s[i]))
split(s) == SplitFrom(s, 1, <<>>)

IsDigit(c) == \E i \in 1..10 : DigitChars[i] = c
DigitValue(c) == (CHOOSE i \in 1..10 : DigitChars[i] = c) - 1
RECURSIVE DigitsValue(_)
DigitsValue(cs) ==
    IF cs = <<>> THEN 0
    ELSE DigitsValue(SubSeq(cs, 1, Len(cs) - 1)) * 10 + DigitValue(cs[Len(cs)])

\* float(token) on tokens made of digits, "-" and letters: [exc, nan, val];
\* exc stands for ValueError, nan for the value float("nan")
float(tok) ==
    LET neg  == tok # <<>> /\ tok[1] = "-"
        body == IF neg THEN Tail(tok) ELSE tok
    IN  IF tok = <<"n", "a", "n">> THEN [exc |-> FALSE, nan |-> TRUE, val |-> 0]
        ELSE IF body # <<>> /\ \A i \in 1..Len(body) : IsDigit(body[i])
        THEN [exc |-> FALSE, nan |-> FALSE,
              val |-> IF neg THEN 0 - DigitsValue(body) ELSE DigitsValue(body)]
        ELSE [exc |-> TRUE, nan |-> FALSE, val |-> 0]

\* lo <= v <= hi on floats: every comparison with nan is false
InRange(lo, v, hi) == ~v.nan /\ lo <= v.val /\ v.val <= hi
\* a >= b on floats
FloatGe(a, b) == ~a.nan /\ ~b.nan /\ a.val >= b.val

\* the ordering test of get_shape_from_bounds without its equality case
OrderedOrEqual(min_lon, min_lat, max_lon, max_lat) ==
    ~(   (~min_lon.nan /\ ~max_lon.nan /\ min_lon.val > max_lon.val)
      \/ (~min_lat.nan /\ ~max_lat.nan /\ min_lat.val > max_lat.val))
\* not (min_lon >= max_lon or min_lat >= max_lat)
Ordered(min_lon, min_lat, max_lon, max_lat) ==
    ~(FloatGe(min_lon, max_lon) \/ FloatGe(min_lat, max_lat))

\* spatial_filter.get_shape_from_bounds(bounds): the box, or None
get_shape_from_bounds(bounds) ==
    LET toks == split(bounds.chars)
        vals == [i \in 1..Len(toks) |-> float(toks[i])]
    IN  IF Len(toks) # 4 \/ \E i \in 1..Len(toks) : vals[i].exc
        THEN None
        ELSE LET min_lon == vals[1]
                 min_lat == vals[2]
                 max_lon == vals[3]
                 max_lat == vals[4]
             IN  IF ~(/\ InRange(0 - 180, min_lon, 180) /\ InRange(0 - 90, min_lat, 90)
                      /\ InRange(0 - 180, max_lon, 180) /\ InRange(0 - 90, max_lat, 90))
                 THEN None
                 ELSE IF ~Ordered(min_lon, min_lat, max_lon, max_lat)
                 THEN None
                 ELSE Box(min_lon.val, min_lat.val, max_lon.val, max_lat.val)

(* ---------------------- get_shape_from_filter_file --------------------- *)
\* an int value
PyInt(n) == [kind |-> "int", n |-> n]

\* str(value) of a property value: a str, an int or None
str(value) ==
    CASE value.kind = "str" -> value.chars
      [] value.kind = "int" -> IF value.n < 0 THEN <<"-">> \o Str(0 - value.n) ELSE Str(value.n)
      [] OTHER -> <<"N", "o", "n", "e">>

\* kv.find("="): position of the first "=", 0 when there is none
FindEq(kv) ==
    IF \E i \in 1..Len(kv) : kv[i] = "="
    THEN CHOOSE i \in 1..Len(kv) : kv[i] = "=" /\ \A j \in 1..(i - 1) : kv[j] # "="
    ELSE 0

\* FilterFeaturePicker._pick_by_kv: the loop over pick_filter_feature_kv from
\* position i on; None when a selector has no "="
RECURSIVE PickByKvLoop(_, _, _)
PickByKvLoop(kvs, i, filtered_features) ==
    IF i > Len(kvs) THEN [kind |-> "list", items |-> filtered_features]
    ELSE IF FindEq(kvs[i]) = 0 THEN None
    ELSE LET eq    == FindEq(kvs[i])
             key   == SubSeq(kvs[i], 1, eq - 1)
             value == SubSeq(kvs[i], eq + 1, Len(kvs[i]))
         IN  PickByKvLoop(kvs, i + 1,
                 SelectSeq(filtered_features,
                           LAMBDA f : str(DictGet(f.properties, key)) = value))

\* FilterFeaturePicker._pick_by_id
pick_by_id(polygon_features, feature_index) ==
    IF 0 <= feature_index /\ feature_index < Len(polygon_features)
    THEN [kind |-> "list", items |-> <<polygon_features[feature_index + 1]>>]
    ELSE None

\* FilterFeaturePicker.pick: [kind |-> "list", items] or None
pick(polygon_features, pick_filter_feature_id, pick_filter_feature_kv) ==
    IF pick_filter_feature_id # None /\ pick_filter_feature_kv # <<>> THEN None
    ELSE IF pick_filter_feature_id # None
    THEN pick_by_id(polygon_features, pick_filter_feature_id.n)
    ELSE IF pick_filter_feature_kv # <<>>
    THEN PickByKvLoop(pick_filter_feature_kv, 1, polygon_features)
    ELSE [kind |-> "list", items |-> polygon_features]

\* spatial_filter.get_shape_from_filter_file: [exc, shape]; exc = TRUE when
\* an exception other than fiona's DriverError leaves the function
get_shape_from_filter_file(filter_file, pick_filter_feature_id, pick_filter_feature_kv) ==
    IF filter_file.driver_error THEN [exc |-> FALSE, shape |-> None]
    ELSE IF \E i \in 1..Len(filter_file.features) : filter_file.features[i].geometry = None
    THEN [exc |-> TRUE, shape |-> None]
    ELSE LET polygon_features ==
                 SelectSeq(filter_file.features,
                           LAMBDA f : f.geometry.type \in {"Polygon", "MultiPolygon"})
             filter_features ==
                 pick(polygon_features, pick_filter_feature_id, pick_filter_feature_kv)
         IN  IF filter_features = None THEN [exc |-> FALSE, shape |-> None]
             ELSE IF Len(filter_features.items) = 0 THEN [exc |-> FALSE, shape |-> None]
             ELSE IF Len(filter_features.items) > 1 THEN [exc |-> FALSE, shape |-> None]
             ELSE fix_if_required(filter_features.items[1].geometry)

(* ----------------------------- variables ------------------------------ *)
VARIABLES
    \* StreamingPy7zIO, byte level
    input,       \* the bytes of the archive entry (what the archive will push)
    pos,         \* how many of them have been pushed so far
    buffer,      \* StreamingPy7zIO._buffer
    length,      \* StreamingPy7zIO.length
    forwarded,   \* the lines handed to process_line so far, in order
    reported,    \* total of updater.update_size(len(data)) calls
    pc,          \* where the run is: "extracting"/"running", "flushed",
                 \* "closed", "done", or "failed" (an exception left the pass)
    \* one pass: a filter and a writer behind the adapter
    strategy,          \* "ShapeFilter", "PassThroughFilter" or "SchemaFilter"
    filter_shape,      \* ShapeFilter.filter_shape
    property_renames,  \* BaseFilter.property_renames
    schema_properties, \* BaseFilter.schema_properties
    clip,                   \* filter_7z.ShapeFilter.clip
    limit_to_geom_type,     \* filter_7z.ShapeFilter.limit_to_geom_type
    strict_geom_type_check, \* filter_7z.ShapeFilter.strict_geom_type_check
    count, passed, unparsed, error_count,   \* the filter's counters
    fed,         \* the lines handed to filter.process so far
    ret,         \* what the last filter.process call returned
    written,     \* the features handed to the format writer, in order
    info,        \* the last updater.update_other_info(processed, passed)
    \* SchemaWriter
    geom_types,  \* SchemaWriter.geom_types
    properties,  \* SchemaWriter.properties: key -> set of type names
    \* the result of get_schema and of a rename applied with it
    schema, renames, renamed,
    \* one run of the filter-7z command
    args,        \* the command line: output_driver, name_driver, filter_file,
                 \* pick_filter_feature_id, pick_filter_feature_kv, bounds, schema_file
    schema_json, \* the content of the schema file on disk; None: no such file
    calls,       \* the calls made within the pass so far, in order
    entry,       \* the lines of the archive's geojsonl entry; None: no such entry
    reads,       \* how many times archive.extract was started on the entry
    writer,      \* None, or "created" once create_writer has returned
    output,      \* the output file: "absent" or "exists"
    exit_code,   \* the exit code of the command; None while it runs
    closes,      \* how many times close() was called on the sink of the pass
    error        \* the exception that left the pass; None without one

adapterVars == <<input, pos, buffer, length, forwarded, reported>>
legacyVars == <<clip, limit_to_geom_type, strict_geom_type_check>>
filterVars == <<strategy, filter_shape, property_renames, schema_properties,
                clip, limit_to_geom_type, strict_geom_type_check,
                count, passed, unparsed, error_count, fed, ret, written, info>>
collectorVars == <<geom_types, properties>>
schemaVars == <<schema, renames, renamed>>
runVars == <<args, entry, schema_json, calls, reads, writer, output, exit_code, closes, error>>
vars == <<input, pos, buffer, length, forwarded, reported, pc,
          strategy, filter_shape, property_renames, schema_properties,
          clip, limit_to_geom_type, strict_geom_type_check,
          count, passed, unparsed, error_count, fed, ret, written, info,
          geom_types, properties, schema, renames, renamed,
          args, entry, schema_json, calls, reads, writer, output, exit_code, closes, error>>

\* the parts of the state a specification does not use
IdleAdapter ==
    /\ input = <<>> /\ pos = 0 /\ buffer = <<>> /\ length = 0
    /\ forwarded = <<>> /\ reported = 0
IdleLegacy == clip = TRUE /\ limit_to_geom_type = None /\ strict_geom_type_check = FALSE
IdleFilter ==
    /\ strategy = "none" /\ filter_shape = None
    /\ property_renames = <<>> /\ schema_properties = <<>>
    /\ IdleLegacy
    /\ count = 0 /\ passed = 0 /\ unparsed = 0 /\ error_count = 0
    /\ fed = <<>> /\ ret = None /\ written = <<>> /\ info = None
IdleCollector == geom_types = {} /\ properties = <<>>
IdleSchema == schema = None /\ renames = <<>> /\ renamed = None
IdleRun ==
    /\ args = None /\ entry = None /\ schema_json = None /\ calls = <<>>
    /\ reads = 0
    /\ writer = None /\ output = "absent" /\ exit_code = None
    /\ closes = 0 /\ error = None

(* --------------------------- SpecAdapter ------------------------------ *)
\* StreamingPy7zIO.__init__, for every entry content
InitAdapter ==
    /\ input \in SeqsUpTo(ByteValues, MaxInput)
    /\ pos = 0
    /\ buffer = <<>>
    /\ length = 0
    /\ forwarded = <<>>
    /\ reported = 0
    /\ pc = "extracting"
    /\ IdleFilter /\ IdleCollector /\ IdleSchema
    /\ IdleRun

\* StreamingPy7zIO.write(data), data = the next n bytes of the entry
write(n) ==
    /\ pc = "extracting"
    /\ pos < Len(input)
    /\ LET data == SubSeq(input, pos + 1, Min(pos + n, Len(input)))
           r    == extract_lines(buffer \o data)
       IN  /\ pos' = pos + Len(data)
           /\ length' = length + Len(data)
           /\ buffer' = r.buffer
           /\ IF r.raised
              THEN /\ pc' = "failed"
                   /\ UNCHANGED <<forwarded, reported>>
              ELSE /\ forwarded' = forwarded \o r.lines
                   /\ reported' = reported + Len(data)
                   /\ pc' = pc
    /\ UNCHANGED <<input, filterVars, collectorVars, schemaVars>>
    /\ UNCHANGED runVars

\* StreamingPy7zIO.flush_last_line, called once after archive.extract returned
flush_last_line ==
    /\ pc = "extracting"
    /\ pos = Len(input)
    /\ IF buffer # <<>>
       THEN /\ forwarded' = Append(forwarded, [type |-> "bytes", data |-> buffer])
            /\ buffer' = <<>>
       ELSE UNCHANGED <<forwarded, buffer>>
    /\ pc' = "flushed"
    /\ UNCHANGED <<input, pos, length, reported, filterVars, collectorVars, schemaVars>>
    /\ UNCHANGED runVars

NextAdapter ==
    \/ \E n \in 1..MaxChunk : write(n)
    \/ flush_last_line

SpecAdapter == InitAdapter /\ [][NextAdapter]_vars

(* ----------------------------- SpecPass ------------------------------- *)
(* One pass over the lines of an entry: StreamingPy7zIO.process_line with  *)
(* a filter and a writer, as wired by process_archive (ShapeFilter or      *)
(* PassThroughFilter with FionaWriter) and by process_archive_for_schema   *)
(* (SchemaFilter with SchemaWriter).                                       *)

\* property names
K_a == <<"a">>
K_A == <<"A">>
K_A_2 == <<"A", "_", "2">>
K_b == <<"b">>
K_c == <<"c">>
K_name == <<"n", "a", "m", "e">>

\* the collector state after seeing the keys in this order, all with ints
Observed(keys) == [i \in 1..Len(keys) |-> [k |-> keys[i], v |-> {"int"}]]

\* the first-seen key orders the schemas of the passes are inferred from
PassKeyOrders ==
    { <<>>, <<K_a>>, <<K_a, K_b, K_c>>, <<K_a, K_A>>, <<K_a, K_A, K_A_2>>, <<K_name>> }

\* filter regions: the boxes 0,0,10,10 and 77,12,78,13 (in 1/100 degree)
Box10 == Box(0, 0, 10, 10)
BoxBlr == Box(7700, 1200, 7800, 1300)
PassShapes == {Box10, BoxBlr}

Bengaluru ==
    JsonLine(Feature(Point(7759, 1297), Dict(<<[k |-> K_name, v |-> "\"Bengaluru\""]>>)))
Hyderabad ==
    JsonLine(Feature(Point(7848, 1738), Dict(<<[k |-> K_name, v |-> "\"Hyderabad\""]>>)))

PassGeoms ==
    { Absent, None,
      Point(5, 5), Point(15, 15), Point(10, 5),
      Box(10, 0, 20, 10), Box(15, 15, 20, 20), Empty("Polygon"),
      Geom("Polygon", 5, 5, 15, 15, "fixable"),
      Geom("Polygon", 5, 5, 15, 15, "unfixable") }

PassProps ==
    { Absent, None, [kind |-> "number"], Dict(<<>>),
      Dict(<<[k |-> K_a, v |-> "1"]>>),
      Dict(<<[k |-> K_b, v |-> "2"]>>),
      Dict(<<[k |-> K_a, v |-> "1"], [k |-> K_A, v |-> "2"]>>),
      Dict(<<[k |-> K_a, v |-> "1"], [k |-> K_A, v |-> "2"], [k |-> K_A_2, v |-> "3"]>>) }

\* the decoded lines of an entry
PassLines ==
    {JsonLine(Feature(g, Dict(<<[k |-> K_a, v |-> "1"]>>))) : g \in PassGeoms}
    \cup {JsonLine(Feature(Point(5, 5), p)) : p \in PassProps}
    \cup {JsonLine([kind |-> "number"]), JsonLine([kind |-> "list"]), Garbage}
    \cup {Bengaluru, Hyderabad}

\* most lines of one entry
MaxLines == 2

Counters == [count |-> count, passed |-> passed, unparsed |-> unparsed,
             error_count |-> error_count]

InitPass ==
    /\ pc = "running"
    /\ strategy \in {"ShapeFilter", "PassThroughFilter", "SchemaFilter"}
    /\ IF strategy = "ShapeFilter" THEN filter_shape \in PassShapes ELSE filter_shape = None
    /\ IF strategy = "SchemaFilter"
       THEN property_renames = <<>> /\ schema_properties = <<>>
       ELSE \E keys \in PassKeyOrders :
               LET r == get_schema({"Point"}, Observed(keys))
               IN  /\ property_renames = r.renames
                   /\ schema_properties = r.schema.properties
    /\ count = 0 /\ passed = 0 /\ unparsed = 0 /\ error_count = 0
    /\ fed = <<>> /\ ret = None /\ written = <<>> /\ info = None
    /\ IdleLegacy /\ IdleAdapter /\ IdleCollector /\ IdleSchema
    /\ IdleRun

\* self.filter.process(line) for the filter of this pass
filter_process(line) ==
    CASE strategy = "ShapeFilter" ->
            ShapeFilter_process(filter_shape, property_renames, schema_properties,
                                Counters, line)
      [] strategy = "PassThroughFilter" ->
            PassThroughFilter_process(property_renames, schema_properties, Counters, line)
      [] OTHER -> SchemaFilter_process(Counters, line)

\* self.writer.write(feature) for the writer of this pass:
\* [exc, written, geom_types, properties]
writer_write(feature) ==
    IF strategy = "SchemaFilter"
    THEN LET w == SchemaWriter_write(geom_types, properties, feature)
         IN  [exc |-> w.exc, written |-> written,
              geom_types |-> w.geom_types, properties |-> w.properties]
    ELSE LET w == FionaWriter_write(written, feature)
         IN  [exc |-> w.exc, written |-> w.written,
              geom_types |-> geom_types, properties |-> properties]

\* StreamingPy7zIO.process_line(line); an exception leaves the pass (the
\* finally clause of process_archive closes the writer) and pc becomes "failed"
ProcessLine(line, then) ==
    LET o == filter_process(line) IN
    /\ fed' = Append(fed, line)
    /\ count' = o.c.count /\ passed' = o.c.passed
    /\ unparsed' = o.c.unparsed /\ error_count' = o.c.error_count
    /\ IF o.raised
       THEN /\ ret' = [kind |-> "raised"]
            /\ pc' = "failed"
            /\ UNCHANGED <<written, info, geom_types, properties>>
       ELSE /\ ret' = o.ret
            /\ IF o.ret # None
               THEN LET w == writer_write(o.ret) IN
                    /\ written' = w.written
                    /\ geom_types' = w.geom_types
                    /\ properties' = w.properties
                    /\ IF w.exc
                       THEN pc' = "failed" /\ UNCHANGED info
                       ELSE /\ pc' = then
                            /\ info' = [processed |-> o.c.count, passed |-> o.c.passed]
               ELSE /\ UNCHANGED <<written, geom_types, properties>>
                    /\ pc' = then
                    /\ info' = [processed |-> o.c.count, passed |-> o.c.passed]
    /\ UNCHANGED <<strategy, filter_shape, property_renames, schema_properties,
                   legacyVars, adapterVars, schemaVars>>
    /\ UNCHANGED runVars

\* a complete line of a chunk: write() -> process_line(line)
process_line(line) ==
    /\ pc = "running"
    /\ Len(fed) < MaxLines
    /\ ProcessLine(line, "running")

\* flush_last_line with a non-empty buffer: the tail goes to process_line
\* as undecoded bytes
flush_tail(line) ==
    /\ pc = "running"
    /\ Len(fed) < MaxLines
    /\ ProcessLine(line, "flushed")

\* flush_last_line with an empty buffer
flush_nothing ==
    /\ pc = "running"
    /\ pc' = "flushed"
    /\ UNCHANGED <<adapterVars, filterVars, collectorVars, schemaVars>>
    /\ UNCHANGED runVars

\* writer.close() in the finally clause, after a pass that did not raise
writer_close ==
    /\ pc = "flushed"
    /\ pc' = "closed"
    /\ UNCHANGED <<adapterVars, filterVars, collectorVars, schemaVars>>
    /\ UNCHANGED runVars

NextPass ==
    \/ \E line \in PassLines : process_line(line)
    \/ \E line \in PassLines \cup {Undecodable} : flush_tail(line)
    \/ flush_nothing
    \/ writer_close

SpecPass == InitPass /\ [][NextPass]_vars

(* ---------------------------- SpecSchema ------------------------------ *)
(* The schema-inference pass seen from the collector: SchemaWriter.write   *)
(* for every decoded feature, then get_schema, then the filter of the      *)
(* write pass applying the inferred renames to features of the same entry. *)

\* most writes to the collector
MaxWrites == 2
\* most properties of one feature
MaxProps == 3

SchemaKeys == {K_a, K_A, K_A_2, K_b}

\* sequences over S without repetition, of length 0..n
InjectiveSeqs(S, n) ==
    {q \in SeqsUpTo(S, n) : \A i, j \in 1..Len(q) : i # j => q[i] # q[j]}

\* properties whose i-th value is the int i, so that values tell keys apart
NumberedDict(keys) == [i \in 1..Len(keys) |-> [k |-> keys[i], v |-> Str(i)[1]]]

\* features that differ in their property names
KeyFeatures ==
    {Feature(Point(5, 5), Dict(NumberedDict(keys))) : keys \in InjectiveSeqs(SchemaKeys, MaxProps)}

\* features that differ in the type of one property and in their geometry
K_value == <<"v", "a", "l", "u", "e">>
TypeFeatures ==
    {Feature(g, Dict(<<[k |-> K_value, v |-> v]>>)) :
        g \in {None, Point(5, 5), Box(10, 0, 20, 10)},
        v \in {"1", "2.2", "null", "\"s\""}}

SchemaFeatures == KeyFeatures \cup TypeFeatures

InitSchema ==
    /\ pc = "collecting"
    /\ geom_types = {} /\ properties = <<>>
    /\ IdleSchema /\ IdleAdapter /\ IdleFilter
    /\ IdleRun

\* SchemaWriter.write(feature) during the inference pass
schema_write(feature) ==
    /\ pc = "collecting"
    /\ count < MaxWrites
    /\ LET w == SchemaWriter_write(geom_types, properties, feature) IN
       /\ geom_types' = w.geom_types
       /\ properties' = w.properties
       /\ pc' = IF w.exc THEN "failed" ELSE pc
    /\ count' = count + 1
    /\ UNCHANGED <<adapterVars, schemaVars, strategy, filter_shape, property_renames,
                   schema_properties, legacyVars, passed, unparsed, error_count, fed, ret,
                   written, info>>
    /\ UNCHANGED runVars

\* schema, renames = schema_writer.get_schema()
call_get_schema ==
    /\ pc = "collecting"
    /\ LET r == get_schema(geom_types, properties) IN
       /\ schema' = r.schema
       /\ renames' = r.renames
       /\ pc' = IF r.schema = None THEN "no_schema" ELSE "schema"
    /\ UNCHANGED <<adapterVars, filterVars, collectorVars, renamed>>
    /\ UNCHANGED runVars

\* the names a feature's properties are stored under
FeatureKeys(feature) == {feature.properties.items[i].k : i \in 1..Len(feature.properties.items)}

\* BaseFilter._apply_renames(feature) in the write pass, on a feature of the
\* entry the schema was inferred from; fed keeps the feature as it came in
rename_feature(feature) ==
    /\ pc = "schema"
    /\ FeatureKeys(feature) \subseteq {properties[i].k : i \in 1..Len(properties)}
    /\ renamed' = apply_renames(renames, feature).feature
    /\ fed' = <<feature>>
    /\ UNCHANGED <<adapterVars, collectorVars, schema, renames, pc, strategy,
                   filter_shape, property_renames, schema_properties, legacyVars,
                   count, passed,
                   unparsed, error_count, ret, written, info>>
    /\ UNCHANGED runVars

NextSchema ==
    \/ \E feature \in SchemaFeatures : schema_write(feature)
    \/ call_get_schema
    \/ \E feature \in KeyFeatures : rename_feature(feature)

SpecSchema == InitSchema /\ [][NextSchema]_vars

(* ---------------------------- SpecLegacy ------------------------------ *)
(* One pass of the older module: helpers.StreamingPy7zIO.process_line with *)
(* filter_7z.ShapeFilter and filter_7z.FionaWriter.                        *)

\* most lines of one entry
MaxLegacyLines == 2

LegacyGeoms ==
    { Absent, None,
      Point(5, 5), Point(15, 15),
      Box(5, 5, 15, 15), Box(10, 0, 20, 10),
      Geom("MultiPolygon", 5, 5, 15, 15, "valid"),
      Geom("LineString", 5, 5, 15, 5, "valid"),
      Geom("Polygon", 5, 5, 15, 15, "unfixable") }

LegacyLines ==
    {JsonLine(Feature(g, Dict(<<[k |-> K_a, v |-> "1"]>>))) : g \in LegacyGeoms}
    \cup {JsonLine([kind |-> "number"]), Garbage}

LegacySchema(t) == [kind |-> "schema", geometry |-> t, properties |-> <<[k |-> K_a, v |-> "int"]>>]

InitLegacy ==
    /\ pc = "running"
    /\ strategy = "filter_7z.ShapeFilter"
    /\ filter_shape = Box10
    /\ clip \in BOOLEAN
    /\ limit_to_geom_type \in {None, TypeNamed("Polygon"), TypeNamed("MultiPolygon"),
                               TypeNamed("Point")}
    /\ strict_geom_type_check \in BOOLEAN
    /\ schema \in {LegacySchema(t) : t \in {"Point", "Polygon", "MultiPolygon",
                                            "MultiLineString", "MultiPoint"}}
    /\ property_renames = <<>> /\ schema_properties = <<>>
    /\ count = 0 /\ passed = 0 /\ unparsed = 0 /\ error_count = 0
    /\ fed = <<>> /\ ret = None /\ written = <<>> /\ info = None
    /\ renames = <<>> /\ renamed = None
    /\ IdleAdapter /\ IdleCollector
    /\ IdleRun

\* helpers.StreamingPy7zIO.process_line(line)
LegacyProcessLine(line, then) ==
    LET o == LegacyShapeFilter_process(filter_shape, clip, limit_to_geom_type,
                                       strict_geom_type_check, Counters, line)
    IN
    /\ fed' = Append(fed, line)
    /\ count' = o.c.count /\ passed' = o.c.passed
    /\ unparsed' = o.c.unparsed /\ error_count' = o.c.error_count
    /\ IF o.raised
       THEN /\ ret' = [kind |-> "raised"]
            /\ pc' = "failed"
            /\ UNCHANGED <<written, info>>
       ELSE /\ ret' = o.ret
            /\ written' = IF o.ret # None
                          THEN LegacyFionaWriter_write(schema, written, o.ret)
                          ELSE written
            /\ info' = [processed |-> o.c.count, passed |-> o.c.passed]
            /\ pc' = then
    /\ UNCHANGED <<strategy, filter_shape, property_renames, schema_properties,
                   legacyVars, adapterVars, collectorVars, schemaVars>>
    /\ UNCHANGED runVars

\* a complete line of a chunk
legacy_process_line(line) ==
    /\ pc = "running"
    /\ Len(fed) < MaxLegacyLines
    /\ LegacyProcessLine(line, "running")

\* flush_last_line with a non-empty buffer
legacy_flush_tail(line) ==
    /\ pc = "running"
    /\ Len(fed) < MaxLegacyLines
    /\ LegacyProcessLine(line, "flushed")

\* flush_last_line with an empty buffer
legacy_flush_nothing ==
    /\ pc = "running"
    /\ pc' = "flushed"
    /\ UNCHANGED <<adapterVars, filterVars, collectorVars, schemaVars>>
    /\ UNCHANGED runVars

\* writer.close()
legacy_writer_close ==
    /\ pc = "flushed"
    /\ pc' = "closed"
    /\ UNCHANGED <<adapterVars, filterVars, collectorVars, schemaVars>>
    /\ UNCHANGED runVars

NextLegacy ==
    \/ \E line \in LegacyLines : legacy_process_line(line)
    \/ \E line \in LegacyLines \cup {Undecodable} : legacy_flush_tail(line)
    \/ legacy_flush_nothing
    \/ legacy_writer_close

SpecLegacy == InitLegacy /\ [][NextLegacy]_vars

(* ---------------------------- SpecCollect ----------------------------- *)
(* The collector over one entry whose features differ in geometry type and *)
(* in the type of the value of one property: SchemaWriter.write for every  *)
(* decoded feature, in order, then get_schema.  fed keeps the lines.       *)

\* most features of the entry
MaxFeatures == 3

CollectGeoms ==
    { None, Point(5, 5), Box(0, 0, 10, 10),
      Geom("MultiPolygon", 0, 0, 10, 10, "valid"),
      Geom("LineString", 0, 0, 10, 0, "valid") }
CollectValues == {"1", "2.2", "null", "\"s\"", "true"}

CollectFeatures ==
    {Feature(g, Dict(<<[k |-> K_value, v |-> "1"]>>)) : g \in CollectGeoms}
    \cup {Feature(Point(5, 5), Dict(<<[k |-> K_value, v |-> v]>>)) : v \in CollectValues}

InitCollect ==
    /\ pc = "collecting"
    /\ geom_types = {} /\ properties = <<>>
    /\ IdleSchema /\ IdleAdapter /\ IdleFilter
    /\ IdleRun

\* writer.write(feature) for the next feature of the entry
collector_write(feature) ==
    /\ pc = "collecting"
    /\ Len(fed) < MaxFeatures
    /\ LET w == SchemaWriter_write(geom_types, properties, feature) IN
       /\ geom_types' = w.geom_types
       /\ properties' = w.properties
       /\ pc' = IF w.exc THEN "failed" ELSE pc
    /\ fed' = Append(fed, JsonLine(feature))
    /\ UNCHANGED <<adapterVars, schemaVars, strategy, filter_shape, property_renames,
                   schema_properties, legacyVars, count, passed, unparsed, error_count,
                   ret, written, info>>
    /\ UNCHANGED runVars

NextCollect ==
    \/ \E feature \in CollectFeatures : collector_write(feature)
    \/ call_get_schema

SpecCollect == InitCollect /\ [][NextCollect]_vars

(* ----------------------------- SpecBounds ----------------------------- *)
(* get_shape_from_bounds on bounds strings of every shape.                 *)

\* most comma-separated tokens of a bounds string
MaxTokens == 5

\* the command line with no option given
NoArgs ==
    [output_driver |-> None, name_driver |-> None, filter_file |-> None,
     pick_filter_feature_id |-> None, pick_filter_feature_kv |-> <<>>,
     bounds |-> None, schema_file |-> None]

BoundsTokens ==
    { <<"-", "1", "8", "1">>, <<"-", "1", "8", "0">>, <<"0">>, <<"9", "0">>,
      <<"1", "8", "0">>, <<"1", "8", "1">>, <<"x">>, <<"n", "a", "n">> }

\* ",".join(tokens)
RECURSIVE Join(_)
Join(toks) ==
    IF toks = <<>> THEN <<>>
    ELSE IF Len(toks) = 1 THEN toks[1]
    ELSE toks[1] \o <<",">> \o Join(Tail(toks))

BoundsStrings == {PyStr(Join(toks)) : toks \in SeqsUpTo(BoundsTokens, MaxTokens)}

InitBounds ==
    /\ pc = "start"
    /\ \E b \in BoundsStrings : args = [NoArgs EXCEPT !.bounds = b]
    /\ entry = None /\ reads = 0 /\ writer = None /\ output = "absent" /\ exit_code = None
    /\ schema_json = None /\ calls = <<>> /\ closes = 0 /\ error = None
    /\ IdleAdapter /\ IdleFilter /\ IdleCollector /\ IdleSchema

\* filter_shape = get_shape_from_bounds(bounds)
call_get_shape_from_bounds ==
    /\ pc = "start"
    /\ filter_shape' = get_shape_from_bounds(args.bounds)
    /\ pc' = "done"
    /\ UNCHANGED <<adapterVars, collectorVars, schemaVars, runVars, strategy,
                   property_renames, schema_properties, legacyVars, count, passed,
                   unparsed, error_count, fed, ret, written, info>>

NextBounds == call_get_shape_from_bounds

SpecBounds == InitBounds /\ [][NextBounds]_vars

(* ------------------------------ SpecPick ------------------------------ *)
(* get_shape_from_filter_file on filter files and selectors of every shape *)

\* most features of a filter file
MaxFilterFeatures == 3
\* most --pick-filter-feature-kv options
MaxKv == 2

K_n == <<"n">>
K_i == <<"i">>
FilterFeature(g, p) == [geometry |-> g, properties |-> p]
FilterFeatures ==
    { FilterFeature(Box(0, 0, 90, 90), <<[k |-> K_n, v |-> PyStr(<<"A">>)]>>),
      FilterFeature(Geom("MultiPolygon", 0, 0, 45, 45, "fixable"),
                    <<[k |-> K_n, v |-> PyStr(<<"B">>)], [k |-> K_i, v |-> PyInt(1)]>>),
      FilterFeature(Box(100, 0, 110, 10), <<[k |-> K_i, v |-> PyInt(1)]>>),
      FilterFeature(Point(5, 5), <<[k |-> K_n, v |-> PyStr(<<"A">>)]>>),
      FilterFeature(None, <<[k |-> K_n, v |-> PyStr(<<"A">>)]>>) }

FilterFile(features) == [kind |-> "file", driver_error |-> FALSE, features |-> features]
Unreadable == [kind |-> "file", driver_error |-> TRUE, features |-> <<>>]
FilterFiles ==
    {FilterFile(fs) : fs \in SeqsUpTo(FilterFeatures, MaxFilterFeatures)} \cup {Unreadable}

\* n=A, i=1, n=None and a selector without "="
KvStrings ==
    { <<"n", "=", "A">>, <<"i", "=", "1">>, <<"n", "=", "N", "o", "n", "e">>, <<"n", "A">> }
FeatureIds == {None} \cup {PyInt(n) : n \in (0 - 1)..MaxFilterFeatures}

InitPick ==
    /\ pc = "start"
    /\ \E f \in FilterFiles, id \in FeatureIds, kv \in SeqsUpTo(KvStrings, MaxKv) :
          args = [NoArgs EXCEPT !.filter_file = f, !.pick_filter_feature_id = id,
                                !.pick_filter_feature_kv = kv]
    /\ entry = None /\ reads = 0 /\ writer = None /\ output = "absent" /\ exit_code = None
    /\ schema_json = None /\ calls = <<>> /\ closes = 0 /\ error = None
    /\ IdleAdapter /\ IdleFilter /\ IdleCollector /\ IdleSchema

\* filter_shape = get_shape_from_filter_file(...)
call_get_shape_from_filter_file ==
    /\ pc = "start"
    /\ LET r == get_shape_from_filter_file(args.filter_file, args.pick_filter_feature_id,
                                           args.pick_filter_feature_kv)
       IN  /\ filter_shape' = r.shape
           /\ pc' = IF r.exc THEN "failed" ELSE "done"
    /\ UNCHANGED <<adapterVars, collectorVars, schemaVars, runVars, strategy,
                   property_renames, schema_properties, legacyVars, count, passed,
                   unparsed, error_count, fed, ret, written, info>>

NextPick == call_get_shape_from_filter_file

SpecPick == InitPick /\ [][NextPick]_vars

(* ------------------------------- SpecRun ------------------------------ *)
(* One run of the filter-7z command (commands/filter_7z.py): validation of *)
(* the options, the schema-inference pass (get_schema_from_archive) unless *)
(* a schema file is given, creation of the filter and the writer, and the  *)
(* filter+write pass (process_archive).  The archive collaborator hands    *)
(* the entry over line by line; every line of the entry ends in a newline. *)

\* most lines of the entry
MaxRunLines == 2

Driver(name) == [kind |-> "driver", name |-> name]
\* an exception on its way out of a pass: FileNotFoundError (no geojsonl
\* entry), ArchiveError (archive.extract raised), LineError (raised while a
\* line was processed)
Raised(name) == [kind |-> "exception", name |-> name]

\* lines 106-117 of get_schema_from_archive without the two failure tests
get_schema_from_archive_unchecked(self_geom_types, self_properties) ==
    LET rn == DetectRenames(self_properties) IN
    [schema  |-> [kind |-> "schema",
                  geometry |-> sorted(self_geom_types),
                  properties |-> OutPropertiesLoop(self_properties, rn, 1, <<>>)],
     renames |-> rn]
\* lines 106-117 of get_schema_from_archive: (schema, renames) or (None, {})
get_schema_from_archive(self_geom_types, self_properties) ==
    LET r == get_schema(self_geom_types, self_properties) IN
    IF r.schema = None THEN [schema |-> None, renames |-> <<>>]
    ELSE IF r.schema.geometry = <<>> THEN [schema |-> None, renames |-> <<>>]
    ELSE [schema  |-> [r.schema EXCEPT !.geometry =
                          sorted({r.schema.geometry[i] : i \in 1..Len(r.schema.geometry)})],
          renames |-> r.renames]

\* the filter of the inference pass if it were the run's spatial filter
inference_filter_process_spatial(c, line) ==
    IF filter_shape = None THEN SchemaFilter_process(c, line)
    ELSE ShapeFilter_process(filter_shape, <<>>, <<>>, c, line)
\* schema_filter.process(line): get_schema_from_archive builds a SchemaFilter
inference_filter_process(c, line) == SchemaFilter_process(c, line)

\* the entry: a point inside the box 0,0,90,90, a polygon outside it, a
\* feature with a null geometry, a line that is not JSON, and the line 5
RunLines ==
    { JsonLine(Feature(Point(5, 5), Dict(<<[k |-> K_a, v |-> "1"]>>))),
      JsonLine(Feature(Box(100, 0, 110, 10), Dict(<<[k |-> K_b, v |-> "\"s\""]>>))),
      JsonLine(Feature(None, Dict(<<[k |-> K_a, v |-> "1"]>>))),
      Garbage,
      JsonLine([kind |-> "number"]) }
Entry(lines) == [kind |-> "entry", lines |-> lines]
Entries == {None} \cup {Entry(ls) : ls \in SeqsUpTo(RunLines, MaxRunLines)}

\* -o/-d: the driver given, and the driver get_driver_from_filename finds
OutputOptions ==
    { [output_driver |-> None, name_driver |-> Driver("GeoJSONSeq")],
      [output_driver |-> Driver("GPKG"), name_driver |-> None],
      [output_driver |-> None, name_driver |-> None] }

Chars_0_0_90_90 == <<"0", ",", "0", ",", "9", "0", ",", "9", "0">>
TwoPolygons ==
    FilterFile(<< FilterFeature(Box(0, 0, 90, 90), <<[k |-> K_n, v |-> PyStr(<<"A">>)]>>),
                  FilterFeature(Box(100, 0, 110, 10), <<[k |-> K_i, v |-> PyInt(1)]>>) >>)
OnePolygon ==
    FilterFile(<< FilterFeature(Box(0, 0, 90, 90), <<[k |-> K_n, v |-> PyStr(<<"A">>)]>>) >>)
NoFilter ==
    [filter_file |-> None, pick_filter_feature_id |-> None,
     pick_filter_feature_kv |-> <<>>, bounds |-> None]
\* -f/-b/--pick-filter-feature-id/--pick-filter-feature-kv
FilterOptions ==
    { NoFilter,
      [NoFilter EXCEPT !.bounds = PyStr(Chars_0_0_90_90)],
      [NoFilter EXCEPT !.bounds = PyStr(<<>>)],
      [NoFilter EXCEPT !.bounds = PyStr(<<"x">>)],
      [NoFilter EXCEPT !.bounds = PyStr(<<"0", ",", "0", ",", "1", "8", "1", ",", "9", "0">>)],
      [NoFilter EXCEPT !.bounds = PyStr(<<"9", "0", ",", "0", ",", "0", ",", "9", "0">>)],
      [NoFilter EXCEPT !.filter_file = OnePolygon],
      [NoFilter EXCEPT !.filter_file = OnePolygon, !.bounds = PyStr(Chars_0_0_90_90)],
      [NoFilter EXCEPT !.filter_file = TwoPolygons],
      [NoFilter EXCEPT !.filter_file = TwoPolygons, !.pick_filter_feature_id = PyInt(0)],
      [NoFilter EXCEPT !.filter_file = TwoPolygons, !.pick_filter_feature_id = PyInt(2)],
      [NoFilter EXCEPT !.filter_file = TwoPolygons,
                       !.pick_filter_feature_kv = << <<"n", "=", "A">> >>],
      [NoFilter EXCEPT !.filter_file = TwoPolygons,
                       !.pick_filter_feature_kv = << <<"n", "=", "Z">> >>] }

\* -s: the path of the schema file, and the content of a schema file
SchemaPath == [kind |-> "path", name |-> "schema.json"]
SchemaFile ==
    [kind |-> "object",
     items |-> << [k |-> "geometry", v |-> <<"Point">>],
                  [k |-> "properties", v |-> <<[k |-> K_a, v |-> "int"]>>] >>]

RunArgs ==
    { [output_driver |-> o.output_driver, name_driver |-> o.name_driver,
       filter_file |-> f.filter_file,
       pick_filter_feature_id |-> f.pick_filter_feature_id,
       pick_filter_feature_kv |-> f.pick_filter_feature_kv,
       bounds |-> f.bounds, schema_file |-> sf] :
        o \in OutputOptions, f \in FilterOptions, sf \in {None, SchemaPath} }

InitRun ==
    /\ pc = "start"
    /\ args \in RunArgs
    /\ entry \in Entries
    /\ schema_json = IF args.schema_file = None THEN None ELSE SchemaFile
    /\ calls = <<>>
    /\ reads = 0 /\ writer = None /\ output = "absent" /\ exit_code = None
    /\ closes = 0 /\ error = None
    /\ IdleAdapter /\ IdleFilter /\ IdleCollector /\ IdleSchema

\* the command ends with this exit code
Exit(code) == pc' = "exited" /\ exit_code' = code

\* schema = json.load(f); property_renames = schema.pop("property_renames", {})
\* for a schema file holding a JSON object: the schema left after the pop
\* (keys: the keys it still has) and the renames
load_schema_file(loaded) ==
    LET popped == DictWithout(loaded.items, "property_renames") IN
    [schema |-> [kind |-> "schema",
                 geometry |-> DictGet(popped, "geometry"),
                 properties |-> DictGetOr(popped, "properties", <<>>),
                 keys |-> DictKeys(popped)],
     property_renames |-> DictGetOr(loaded.items, "property_renames", <<>>)]

\* filter_7z, lines 96-167: the -s option (click.Path(exists=True):
\* UsageError, exit code 2), validate_output_driver (UsageError),
\* validate_filter_options (UsageError), the filter shape (click.Abort:
\* exit code 1; an uncaught exception: exit code 1) and the schema file
\* (a file that holds no JSON object has no pop(key, default): exit code 1)
filter_7z_validate ==
    /\ pc = "start"
    /\ LET effective_driver == IF args.output_driver # None THEN args.output_driver
                               ELSE args.name_driver
           has_file   == args.filter_file # None
           has_bounds == args.bounds # None /\ args.bounds.chars # <<>>
           r == IF has_file
                THEN get_shape_from_filter_file(args.filter_file,
                         args.pick_filter_feature_id, args.pick_filter_feature_kv)
                ELSE IF has_bounds
                THEN [exc |-> FALSE, shape |-> get_shape_from_bounds(args.bounds)]
                ELSE [exc |-> FALSE, shape |-> None]
       IN  IF args.schema_file # None /\ schema_json = None
           THEN Exit(2) /\ UNCHANGED <<filter_shape, schema, property_renames>>
           ELSE IF effective_driver = None
           THEN Exit(2) /\ UNCHANGED <<filter_shape, schema, property_renames>>
           ELSE IF has_file /\ has_bounds
           THEN Exit(2) /\ UNCHANGED <<filter_shape, schema, property_renames>>
           ELSE IF r.exc \/ ((has_file \/ has_bounds) /\ r.shape = None)
           THEN Exit(1) /\ UNCHANGED <<filter_shape, schema, property_renames>>
           ELSE IF args.schema_file # None /\ schema_json.kind # "object"
           THEN Exit(1) /\ UNCHANGED <<filter_shape, schema, property_renames>>
           ELSE /\ filter_shape' = r.shape
                /\ UNCHANGED exit_code
                /\ IF args.schema_file # None
                   THEN /\ schema' = load_schema_file(schema_json).schema
                        /\ property_renames' = load_schema_file(schema_json).property_renames
                        /\ pc' = "create"
                   ELSE /\ UNCHANGED <<schema, property_renames>>
                        /\ pc' = "infer"
    /\ UNCHANGED <<adapterVars, collectorVars, renames, renamed, strategy,
                   schema_properties, legacyVars, count, passed, unparsed, error_count,
                   fed, ret, written, info, args, entry, schema_json, calls, reads, writer, output,
                   closes, error>>

\* get_schema_from_archive up to archive.extract: a SchemaWriter and a
\* SchemaFilter are built; without a geojsonl entry FileNotFoundError is
\* caught at line 119, (None, {}) returned and filter_7z returns (line 173)
infer_open ==
    /\ pc = "infer"
    /\ strategy' = "SchemaFilter"
    /\ geom_types' = {} /\ properties' = <<>>
    /\ count' = 0 /\ passed' = 0 /\ unparsed' = 0 /\ error_count' = 0
    /\ fed' = <<>>
    /\ closes' = 0
    /\ IF entry = None
       THEN Exit(0) /\ error' = Raised("FileNotFoundError") /\ UNCHANGED reads
       ELSE pc' = "inferring" /\ reads' = reads + 1 /\ UNCHANGED <<exit_code, error>>
    /\ UNCHANGED <<adapterVars, schemaVars, filter_shape, property_renames,
                   schema_properties, legacyVars, ret, written, info,
                   args, entry, schema_json, calls, writer, output>>

\* process_line(line) in the inference pass; an exception of the collector
\* is caught at line 119 and filter_7z returns at line 173
infer_line ==
    /\ pc = "inferring"
    /\ Len(fed) < Len(entry.lines)
    /\ LET line == entry.lines[Len(fed) + 1]
           o    == inference_filter_process(Counters, line)
           w    == SchemaWriter_write(geom_types, properties, o.ret)
       IN  /\ fed' = Append(fed, line)
           /\ count' = o.c.count /\ passed' = o.c.passed
           /\ unparsed' = o.c.unparsed /\ error_count' = o.c.error_count
           /\ ret' = o.ret
           /\ IF o.ret = None
              THEN /\ UNCHANGED <<geom_types, properties, pc, exit_code, closes, error>>
                   /\ info' = [processed |-> o.c.count, passed |-> o.c.passed]
              ELSE /\ geom_types' = w.geom_types
                   /\ properties' = w.properties
                   /\ IF w.exc
                      THEN /\ Exit(0)
                           /\ closes' = closes + 1
                           /\ error' = Raised("LineError")
                           /\ UNCHANGED info
                      ELSE /\ UNCHANGED <<pc, exit_code, closes, error>>
                           /\ info' = [processed |-> o.c.count, passed |-> o.c.passed]
    /\ UNCHANGED <<adapterVars, schemaVars, strategy, filter_shape, property_renames,
                   schema_properties, legacyVars, written,
                   args, entry, schema_json, calls, reads, writer, output>>

\* the end of the inference pass: flush_last_line, schema_writer.close(),
\* get_schema and lines 107-117; filter_7z returns at line 173 without a schema
infer_end ==
    /\ pc = "inferring"
    /\ Len(fed) = Len(entry.lines)
    /\ LET r == get_schema_from_archive(geom_types, properties) IN
       /\ schema' = r.schema
       /\ renames' = r.renames
       /\ property_renames' = r.renames
       /\ IF r.schema = None
          THEN Exit(0)
          ELSE pc' = "create" /\ UNCHANGED exit_code
    /\ closes' = closes + 1
    /\ UNCHANGED error
    /\ UNCHANGED <<adapterVars, collectorVars, renamed, strategy, filter_shape,
                   schema_properties, legacyVars, count, passed, unparsed, error_count,
                   fed, ret, written, info, args, entry, schema_json, calls, reads, writer, output>>

\* filter_7z, lines 176-193 up to archive.extract: the filter and the writer
\* are created; process_archive returns at once without a geojsonl entry
write_open ==
    /\ pc = "create"
    /\ schema_properties' = schema.properties
    /\ strategy' = IF filter_shape # None THEN "ShapeFilter" ELSE "PassThroughFilter"
    /\ count' = 0 /\ passed' = 0 /\ unparsed' = 0 /\ error_count' = 0
    /\ fed' = <<>> /\ ret' = None
    /\ writer' = "created"
    /\ closes' = 0 /\ error' = None
    /\ IF entry = None
       THEN Exit(0) /\ UNCHANGED reads
       ELSE pc' = "writing" /\ reads' = reads + 1 /\ UNCHANGED exit_code
    /\ UNCHANGED <<adapterVars, collectorVars, schemaVars, filter_shape,
                   property_renames, legacyVars, written, info, args, entry, schema_json, calls, output>>

\* process_line(line) in the filter+write pass; the first access to the
\* collection creates the output file; an exception closes the writer in
\* the finally clause and ends the command with a traceback (exit code 1)
write_line ==
    /\ pc = "writing"
    /\ Len(fed) < Len(entry.lines)
    /\ LET line == entry.lines[Len(fed) + 1]
           o    == filter_process(line)
           w    == FionaWriter_write(written, o.ret)
       IN  /\ fed' = Append(fed, line)
           /\ count' = o.c.count /\ passed' = o.c.passed
           /\ unparsed' = o.c.unparsed /\ error_count' = o.c.error_count
           /\ IF o.raised
              THEN /\ ret' = [kind |-> "raised"]
                   /\ output' = "exists"
                   /\ Exit(1)
                   /\ closes' = closes + 1
                   /\ error' = Raised("LineError")
                   /\ UNCHANGED <<written, info>>
              ELSE /\ ret' = o.ret
                   /\ IF o.ret = None
                      THEN /\ UNCHANGED <<written, output, pc, exit_code, closes, error>>
                           /\ info' = [processed |-> o.c.count, passed |-> o.c.passed]
                      ELSE /\ written' = w.written
                           /\ output' = "exists"
                           /\ IF w.exc
                              THEN /\ Exit(1)
                                   /\ closes' = closes + 1
                                   /\ error' = Raised("LineError")
                                   /\ UNCHANGED info
                              ELSE /\ UNCHANGED <<pc, exit_code, closes, error>>
                                   /\ info' = [processed |-> o.c.count,
                                               passed |-> o.c.passed]
    /\ UNCHANGED <<adapterVars, collectorVars, schemaVars, strategy, filter_shape,
                   property_renames, schema_properties, legacyVars,
                   args, entry, schema_json, calls, reads, writer>>

\* the end of the filter+write pass: flush_last_line and writer.close()
write_end ==
    /\ pc = "writing"
    /\ Len(fed) = Len(entry.lines)
    /\ output' = "exists"
    /\ Exit(0)
    /\ closes' = closes + 1
    /\ UNCHANGED <<adapterVars, filterVars, collectorVars, schemaVars,
                   args, entry, schema_json, calls, reads, writer, error>>

\* archive.extract raises while the entry is being extracted (a corrupt
\* volume): the finally clause closes the sink; in the inference pass the
\* exception is caught at line 119 of schema_common and filter_7z returns at
\* line 173, in the filter+write pass it leaves the command (exit code 1)
extract_raises ==
    /\ pc \in {"inferring", "writing"}
    /\ closes' = closes + 1
    /\ error' = Raised("ArchiveError")
    /\ IF pc = "inferring"
       THEN Exit(0) /\ UNCHANGED output
       ELSE Exit(1) /\ output' = "exists"
    /\ UNCHANGED <<adapterVars, filterVars, collectorVars, schemaVars,
                   args, entry, schema_json, calls, reads, writer>>

NextRun ==
    \/ filter_7z_validate
    \/ infer_open
    \/ infer_line
    \/ infer_end
    \/ write_open
    \/ write_line
    \/ write_end
    \/ extract_raises

SpecRun == InitRun /\ [][NextRun]_vars

(* ------------------------ adapter: reference -------------------------- *)
\* str.encode("utf-8") of a decoded line
RECURSIVE Utf8Encode(_)
Utf8Encode(cs) ==
    IF cs = <<>> THEN <<>>
    ELSE IF cs[1] < 128 THEN <<cs[1]>> \o Utf8Encode(Tail(cs))
    ELSE <<195, cs[1] - 64>> \o Utf8Encode(Tail(cs))

\* the bytes a forwarded line stands for: a decoded line had its newline
\* stripped, the flushed tail is forwarded as the raw bytes
LineBytes(l) == IF l.type = "str" THEN Utf8Encode(l.data) \o <<NL>> ELSE l.data

RECURSIVE Flatten(_)
Flatten(ls) == IF ls = <<>> THEN <<>> ELSE LineBytes(ls[1]) \o Flatten(Tail(ls))

\* the lines forwarded when the whole entry arrives as ONE chunk and the
\* tail is then flushed (flush_last_line is not reached when write raised)
OneChunkForwarded(bs) ==
    LET r == extract_lines(bs) IN
    IF bs = <<>> THEN <<>>
    ELSE IF r.raised THEN <<>>
    ELSE IF r.buffer # <<>> THEN Append(r.lines, [type |-> "bytes", data |-> r.buffer])
    ELSE r.lines

NewlinesIn(bs) == Cardinality({i \in 1..Len(bs) : bs[i] = NL})

Received == SubSeq(input, 1, pos)

(* ------------------------------ claims -------------------------------- *)
\* C1: line-boundary invariance.  Whatever the chunking, once the feed has
\* ended the lines forwarded to the filter are the ones forwarded when the
\* same bytes arrive as a single chunk.
C1_LineBoundaryInvariance ==
    pc \in {"flushed", "failed"} => forwarded = OneChunkForwarded(input)

\* C2: the adapter never drops or duplicates bytes.  After any sequence of
\* write calls the forwarded lines (each with its newline) followed by the
\* buffer are the bytes received, the buffer holds no newline, and after
\* flush_last_line the buffer is empty.
C2_NoByteDroppedOrDuplicated ==
    /\ Flatten(forwarded) \o buffer = Received
    /\ \A i \in 1..Len(buffer) : buffer[i] # NL
    /\ pc = "flushed" => buffer = <<>>

\* C7: a line that is not valid UTF-8 does not make write() fail and is not
\* swallowed: every complete line received so far has been forwarded.
C7_UndecodableLineForwarded ==
    /\ pc # "failed"
    /\ pc = "extracting" => Len(forwarded) = NewlinesIn(Received)

\* the name a property is stored under after renaming
Target(key) == DictGetOr(renames, key, key)

\* C9: renaming loses no data.  After _apply_renames every property of the
\* incoming feature is found, with its own value, under its renamed name
\* (or its own name when it is not renamed).
C9_RenamingLosesNoData ==
    renamed # None =>
        \A i \in 1..Len(fed[1].properties.items) :
            LET it == fed[1].properties.items[i] IN
            /\ DictHas(renamed.properties.items, Target(it.k))
            /\ DictAt(renamed.properties.items, Target(it.k)) = it.v

\* C10: the unified property map is collision-free.  The property names of
\* an inferred schema are pairwise distinct when lowercased, and there is
\* one property per observed key.
C10_SchemaCollisionFree ==
    pc = "schema" =>
        /\ Len(schema.properties) = Len(properties)
        /\ \A i, j \in 1..Len(schema.properties) :
              i # j => lower(schema.properties[i].k) # lower(schema.properties[j].k)

\* C10 witness: a schema inferred from three keys of which two were renamed
W10_TwoRenames ==
    /\ pc = "schema"
    /\ Len(properties) = 3
    /\ Len(renames) = 2
    /\ Len(schema.properties) = 3

(* --------------------------- pass: reference --------------------------- *)
Last(q) == q[Len(q)]

\* the closed rectangles b and g have a point in common
SharePoint(b, g) ==
    /\ Max(b.x1, g.x1) <= Min(b.x2, g.x2)
    /\ Max(b.y1, g.y1) <= Min(b.y2, g.y2)

\* the line decodes as JSON, its geometry is processed without error and
\* the geometry intersects the filter region
GeometryAccepted(line) ==
    /\ line.text = "json"
    /\ line.value.kind = "object"
    /\ line.value.geometry.kind = "geom"
    /\ line.value.geometry.validity # "unfixable"
    /\ SharePoint(filter_shape, line.value.geometry)

\* renaming or normalizing the properties of this decoded feature raises:
\* its properties entry is neither a map nor null while the filter has
\* renames or schema properties to apply
PropertiesRaise(line) ==
    /\ line.value.properties.kind = "number"
    /\ (property_renames # <<>> \/ schema_properties # <<>>)

GeometriesOf(features) == [i \in 1..Len(features) |-> features[i].geometry]
ValuesOf(lines) == [i \in 1..Len(lines) |-> lines[i].value]

Accepted(line) == GeometryAccepted(line) /\ ~PropertiesRaise(line)
C4_NoLineStopsTheRun ==
    (/\ strategy \in {"PassThroughFilter", "SchemaFilter"}
     /\ strategy = "PassThroughFilter" => schema_properties # <<>>
     /\ \A i \in 1..Len(fed) : fed[i].text # "undecodable")
    => (pc # "failed" /\ count = Len(fed))

\* the decoded value has no usable geometry: it is not an object, or its
\* geometry is missing or null
MalformedGeometry(line) ==
    IF line.value.kind # "object" THEN TRUE ELSE line.value.geometry.kind # "geom"

\* C5: ShapeFilter.process never raises for a line that decodes as JSON; when
\* the geometry cannot be built it returns null and error_count grows by one.
C5_ShapeFilterNeverRaises ==
    [][(/\ strategy \in {"ShapeFilter", "filter_7z.ShapeFilter"}
        /\ fed' # fed
        /\ Last(fed').text = "json") =>
          /\ ret'.kind # "raised"
          /\ MalformedGeometry(Last(fed')) =>
                (ret' = None /\ error_count' = error_count + 1)]_vars

\* C6: every process(line) call adds one to count; for a line that is not
\* valid JSON it also adds one to unparsed, returns null, raises nothing and
\* leaves passed and error_count alone.
C6_CountAndUnparsed ==
    [][fed' # fed =>
          /\ count' = count + 1
          /\ Last(fed').text # "json" =>
                /\ unparsed' = unparsed + 1
                /\ ret' = None
                /\ passed' = passed
                /\ error_count' = error_count]_vars

\* C8: normalization completeness.  Every feature returned by
\* PassThroughFilter or ShapeFilter carries exactly the schema's property
\* names, in schema order.
C8_NormalizationComplete ==
    (strategy \in {"PassThroughFilter", "ShapeFilter"} /\ ret.kind = "object") =>
        /\ ret.properties.kind = "dict"
        /\ DictKeys(ret.properties.items) = DictKeys(schema_properties)

(* ------------------------- collector: reference ------------------------ *)
\* the type names observed for the property `value` over the lines fed
ObservedTypes ==
    {TypeName(fed[i].value.properties.items[1].v) : i \in 1..Len(fed)}

\* the type the schema gives to the property `value`
InferredType == DictAt(schema.properties, K_value)

\* what is left of T after dropping int (only when float is present) and
\* then null (only when exactly one other type is present)
Remaining(T) ==
    LET a == IF "float" \in T THEN T \ {"int"} ELSE T
    IN  IF "NoneType" \in a /\ Cardinality(a \ {"NoneType"}) = 1
        THEN a \ {"NoneType"} ELSE a

\* C11: type unification.  For the non-empty set T of types observed for a
\* property: float for {int,float} and {int,float,null}; t for {t} and
\* {t,null} when t is not null; str for {null}; str whenever more than one
\* type remains after dropping int (float present) and null (one other type).
C11_TypeUnification ==
    (pc = "schema" /\ fed # <<>>) =>
        LET T == ObservedTypes IN
        /\ T \in {{"int", "float"}, {"int", "float", "NoneType"}} => InferredType = "float"
        /\ \A t \in T \ {"NoneType"} :
              T \in {{t}, {t, "NoneType"}} => InferredType = t
        /\ T = {"NoneType"} => InferredType = "str"
        /\ Cardinality(Remaining(T)) > 1 => InferredType = "str"
        /\ \/ T \in {{"int", "float"}, {"int", "float", "NoneType"}, {"NoneType"}}
           \/ \E t \in T \ {"NoneType"} : T \in {{t}, {t, "NoneType"}}
           \/ Cardinality(Remaining(T)) > 1

\* C11 witness: the values 1, 2.2 and null of three features gave float
W11_IntFloatNullIsFloat ==
    /\ pc = "schema"
    /\ Len(fed) = 3
    /\ [i \in 1..3 |-> fed[i].value.properties.items[1].v] = <<"1", "2.2", "null">>
    /\ schema.properties = <<[k |-> K_value, v |-> "float"]>>

\* the geometry types of the fed features whose geometry is not null
ObservedGeomTypes ==
    {fed[i].value.geometry.type :
        i \in {j \in 1..Len(fed) : fed[j].value.geometry.kind = "geom"}}

\* position of a geometry type name in string order
Rank(t) == CHOOSE i \in 1..Len(GeomTypeNames) : GeomTypeNames[i] = t

\* C12: the geometry entry of an inferred schema is the sorted,
\* duplicate-free list of every geometry type observed on a feature with a
\* non-null geometry; Polygon plus MultiPolygon gives [MultiPolygon, Polygon]
\* and Point plus LineString gives [LineString, Point].
C12_GeometryEntrySortedUnconsolidated ==
    pc = "schema" =>
        LET g == schema.geometry IN
        /\ {g[i] : i \in 1..Len(g)} = ObservedGeomTypes
        /\ \A i, j \in 1..Len(g) : i < j => Rank(g[i]) < Rank(g[j])
        /\ ObservedGeomTypes = {"Polygon", "MultiPolygon"} => g = <<"MultiPolygon", "Polygon">>
        /\ ObservedGeomTypes = {"Point", "LineString"} => g = <<"LineString", "Point">>

\* C12 witness: a Polygon feature, then a MultiPolygon feature, then a
\* feature with a null geometry gave [MultiPolygon, Polygon]
W12_PolygonThenMultiPolygonThenNull ==
    /\ pc = "schema"
    /\ Len(fed) = 3
    /\ fed[1].value.geometry = Box(0, 0, 10, 10)
    /\ fed[2].value.geometry = Geom("MultiPolygon", 0, 0, 10, 10, "valid")
    /\ fed[3].value.geometry = None
    /\ schema.geometry = <<"MultiPolygon", "Polygon">>

(* --------------------------- bounds: reference -------------------------- *)
\* the number a token denotes, for the tokens that denote one
NumberOf(tok) ==
    CASE tok = <<"-", "1", "8", "1">> -> 0 - 181
      [] tok = <<"-", "1", "8", "0">> -> 0 - 180
      [] tok = <<"0">> -> 0
      [] tok = <<"9", "0">> -> 90
      [] tok = <<"1", "8", "0">> -> 180
      [] tok = <<"1", "8", "1">> -> 181
NumberTokens == BoundsTokens \ {<<"x">>, <<"n", "a", "n">>}

\* every string of four comma-separated numbers, longitudes in [-180,180],
\* latitudes in [-90,90], min < max on both axes, with the box it denotes
ValidBounds ==
    { [chars |-> Join(<<a, b, c, d>>),
       box   |-> Box(NumberOf(a), NumberOf(b), NumberOf(c), NumberOf(d))] :
        <<a, b, c, d>> \in
            { q \in NumberTokens \X NumberTokens \X NumberTokens \X NumberTokens :
                /\ \A i \in {1, 3} : 0 - 180 <= NumberOf(q[i]) /\ NumberOf(q[i]) <= 180
                /\ \A i \in {2, 4} : 0 - 90 <= NumberOf(q[i]) /\ NumberOf(q[i]) <= 90
                /\ NumberOf(q[1]) < NumberOf(q[3])
                /\ NumberOf(q[2]) < NumberOf(q[4]) } }

\* C18: get_shape_from_bounds returns a box exactly when the string holds
\* four comma-separated numbers with longitudes in [-180,180], latitudes in
\* [-90,90], min_lon < max_lon and min_lat < max_lat; otherwise no shape.
C18_BoxExactlyForValidBounds ==
    pc = "done" =>
        IF \E v \in ValidBounds : v.chars = args.bounds.chars
        THEN \E v \in ValidBounds : v.chars = args.bounds.chars /\ filter_shape = v.box
        ELSE filter_shape = None

\* C18 witness: "-180,0,180,90" gave the box of that extent
W18_FullWidthBox ==
    /\ pc = "done"
    /\ args.bounds = PyStr(Join(<< <<"-", "1", "8", "0">>, <<"0">>, <<"1", "8", "0">>, <<"9", "0">> >>))
    /\ filter_shape = Box(0 - 180, 0, 180, 90)

(* ------------------------ filter file: reference ------------------------ *)
\* the Polygon/MultiPolygon features of the filter file, in file order
PolygonsOf(file) ==
    SelectSeq(file.features,
              LAMBDA f : IF f.geometry = None THEN FALSE
                         ELSE f.geometry.type \in {"Polygon", "MultiPolygon"})

\* the feature has the property named by the pair, with the value it gives
MatchesPair(f, kv) ==
    \E i \in 1..Len(f.properties) :
        LET it == f.properties[i] IN
        \/ it.v.kind = "str" /\ kv = it.k \o <<"=">> \o it.v.chars
        \/ it.v.kind = "int" /\ kv = it.k \o <<"=">> \o Str(it.v.n)

\* the features the selection leaves; "error" when the selection is one
SelectionOf(a) ==
    LET polys == PolygonsOf(a.filter_file) IN
    IF a.pick_filter_feature_id # None /\ a.pick_filter_feature_kv # <<>> THEN "error"
    ELSE IF a.pick_filter_feature_id # None
    THEN IF a.pick_filter_feature_id.n \in 0..(Len(polys) - 1)
         THEN <<polys[a.pick_filter_feature_id.n + 1]>> ELSE "error"
    ELSE SelectSeq(polys, LAMBDA f : \A j \in 1..Len(a.pick_filter_feature_kv) :
                                         MatchesPair(f, a.pick_filter_feature_kv[j]))

\* C17: get_shape_from_filter_file yields a filter shape exactly when the
\* selection leaves exactly one Polygon/MultiPolygon feature: no selector
\* selects all polygon features, an index selects by 0-based position (out
\* of range is an error), key=value selectors keep the features matching
\* every pair, index together with pairs is an error, and zero or several
\* remaining features is an error.
C17_ShapeExactlyForSingleSelection ==
    pc \in {"done", "failed"} =>
        LET sel == SelectionOf(args) IN
        IF sel # "error" /\ Len(sel) = 1
        THEN pc = "done" /\ filter_shape = [sel[1].geometry EXCEPT !.validity = "valid"]
        ELSE filter_shape = None

(* ----------------------------- run: reference --------------------------- *)
\* the collector after the first n lines of the entry when every line that
\* decodes as JSON reaches it, whatever the filter options of the run
RECURSIVE CollectedOver(_, _)
CollectedOver(lines, n) ==
    IF n = 0 THEN [geom_types |-> {}, properties |-> <<>>]
    ELSE LET before == CollectedOver(lines, n - 1)
             dec    == json_loads(lines[n])
         IN  IF dec.exc # "" THEN before
             ELSE LET w == SchemaWriter_write(before.geom_types, before.properties, dec.value)
                  IN  [geom_types |-> w.geom_types, properties |-> w.properties]

\* the geometry types of all features of the entry, inside the filter
\* region or not
EntryGeomTypes ==
    {entry.lines[i].value.geometry.type :
        i \in {j \in 1..Len(entry.lines) :
                 /\ entry.lines[j].text = "json"
                 /\ entry.lines[j].value.kind = "object"
                 /\ entry.lines[j].value.geometry.kind = "geom"}}

\* the inference pass of this run has returned a schema
Inferred == args.schema_file = None /\ pc \in {"create", "writing"}

\* C13: schema inference is independent of the spatial filter.  Whatever
\* filter region the run was given, the inference pass returns the geometry
\* types, property types and renames of ALL decodable lines of the entry.
C13_InferenceIgnoresFilter ==
    Inferred =>
        LET c == CollectedOver(entry.lines, Len(entry.lines))
            r == get_schema(c.geom_types, c.properties)
        IN  /\ schema = r.schema
            /\ property_renames = r.renames
            /\ {schema.geometry[i] : i \in 1..Len(schema.geometry)} = EntryGeomTypes

\* C13 witness: under the box 0,0,90,90 the polygon lying outside the box
\* gave the schema its geometry type and its property
W13_OutsideFeatureInSchema ==
    /\ Inferred
    /\ filter_shape = Box(0, 0, 90, 90)
    /\ entry.lines = << JsonLine(Feature(Box(100, 0, 110, 10),
                                         Dict(<<[k |-> K_b, v |-> "\"s\""]>>))) >>
    /\ schema.geometry = <<"Polygon">>
    /\ schema.properties = <<[k |-> K_b, v |-> "str"]>>

\* the inference pass of this run is over
InferenceOver ==
    /\ args.schema_file = None
    /\ strategy # "none"
    /\ pc # "inferring"

\* C14: if the inference pass observed no geometry type there is no schema
\* and the filter+write pass never starts: no writer is created, the entry
\* is not read a second time and no output file is produced.
C14_NoGeometryNoWritePass ==
    (InferenceOver /\ geom_types = {}) =>
        /\ schema = None
        /\ pc = "exited"
        /\ writer = None
        /\ reads <= 1
        /\ output = "absent"

\* C14 witness: an entry with a null-geometry feature and a line that is
\* not JSON was read once and the run ended without a writer
W14_NullGeometryEntryEndsRun ==
    /\ InferenceOver
    /\ geom_types = {}
    /\ entry # None
    /\ Len(entry.lines) = 2
    /\ entry.lines[1] = JsonLine(Feature(None, Dict(<<[k |-> K_a, v |-> "1"]>>)))
    /\ entry.lines[2] = Garbage
    /\ reads = 1
    /\ pc = "exited"

\* schema inference failed: get_schema_from_archive returned no schema
InferenceFailed == InferenceOver /\ schema = None /\ pc = "exited"

\* C15: when schema inference fails the command ends with a non-zero exit
\* code.
C15_InferenceFailureExitsNonZero ==
    InferenceFailed => exit_code # 0

\* the options are a configuration error: both a filter file and bounds,
\* bounds that give no box, a filter-feature selection that gives no shape,
\* or an output format that cannot be determined
ConfigurationError ==
    \/ args.output_driver = None /\ args.name_driver = None
    \/ args.filter_file # None /\ args.bounds # None
    \/ args.bounds # None /\ get_shape_from_bounds(args.bounds) = None
    \/ /\ args.filter_file # None
       /\ get_shape_from_filter_file(args.filter_file, args.pick_filter_feature_id,
                                     args.pick_filter_feature_kv).shape = None

\* C16: a configuration error ends the command with a non-zero exit code
\* before the archive is read and before the output file is created.
C16_ConfigurationErrorEndsRun ==
    ConfigurationError =>
        /\ pc \in {"start", "exited"}
        /\ pc = "exited" => exit_code # 0
        /\ reads = 0
        /\ writer = None
        /\ output = "absent"

(* ------------------------ older module: reference ----------------------- *)
\* the line decodes to a feature with a geometry that can be processed
HasGeometry(line) ==
    /\ line.text = "json"
    /\ line.value.kind = "object"
    /\ line.value.geometry.kind = "geom"

\* the gate as stated: equal types, or (non-strict only) a single-part
\* feature under a request for its multi-part type
PassesGate(feature_type) ==
    \/ feature_type = limit_to_geom_type.name
    \/ /\ ~strict_geom_type_check
       /\ <<feature_type, limit_to_geom_type.name>> \in
             { <<"Polygon", "MultiPolygon">>, <<"LineString", "MultiLineString">>,
               <<"Point", "MultiPoint">> }

\* C19: geometry-type gating when a type is requested.  Strict: a feature
\* passes only if its type equals the requested type.  Non-strict: a Polygon
\* also passes a MultiPolygon request (LineString/MultiLineString,
\* Point/MultiPoint likewise).  A feature failing the gate is rejected before
\* the intersection test and changes no counter other than count; a feature
\* passing it is returned when it intersects the filter region.
C19_GeometryTypeGate ==
    [][(/\ strategy = "filter_7z.ShapeFilter"
        /\ limit_to_geom_type # None
        /\ fed' # fed
        /\ HasGeometry(Last(fed'))) =>
          LET g == Last(fed').value.geometry IN
          IF PassesGate(g.type)
          THEN (g.validity = "valid" /\ SharePoint(filter_shape, g)) => ret'.kind = "object"
          ELSE /\ ret' = None
               /\ count' = count + 1
               /\ passed' = passed /\ unparsed' = unparsed
               /\ error_count' = error_count]_vars

\* C20: without clipping every feature the shape filter returns carries its
\* input geometry unchanged, also when it only partly overlaps the region;
\* with clipping the returned geometry is the intersection of the feature's
\* geometry with the region; the properties are unchanged either way.
C20_ClipOnlyWhenEnabled ==
    (strategy = "filter_7z.ShapeFilter" /\ ret.kind = "object") =>
        LET g == Last(fed).value.geometry IN
        /\ ret.properties = Last(fed).value.properties
        /\ ~clip => ret.geometry = g
        /\ clip =>
              /\ ret.geometry.x1 = Max(filter_shape.x1, g.x1)
              /\ ret.geometry.y1 = Max(filter_shape.y1, g.y1)
              /\ ret.geometry.x2 = Min(filter_shape.x2, g.x2)
              /\ ret.geometry.y2 = Min(filter_shape.y2, g.y2)

\* C20 witness: with --no-clip the polygon 5,5,15,15, which only partly
\* overlaps the box 0,0,10,10, was returned as it came in
W20_PartialOverlapUnclipped ==
    /\ strategy = "filter_7z.ShapeFilter"
    /\ ~clip
    /\ filter_shape = Box10
    /\ ret.kind = "object"
    /\ ret.geometry = Box(5, 5, 15, 15)

(* -------------------- older module: the output sink -------------------- *)
\* the multi-part type a single-part type is promoted to
MultiPartOf(t) ==
    CASE t = "Polygon" -> "MultiPolygon"
      [] t = "LineString" -> "MultiLineString"
      [] t = "Point" -> "MultiPoint"
      [] OTHER -> "none"

\* C21: the sink hands a feature to the format writer only if, after
\* conversion, its geometry type equals the schema's geometry type: a feature
\* of that type is written unchanged; a Polygon, LineString or Point under a
\* MultiPolygon, MultiLineString or MultiPoint schema is written with its
\* coordinates one list deeper and its type retagged; every other feature
\* (a multi-part feature under a single-part schema included) is not written.
C21_SinkWritesOnlySchemaType ==
    [][(strategy = "filter_7z.ShapeFilter" /\ fed' # fed) =>
          /\ \A i \in 1..Len(written') : written'[i].geometry.type = schema.geometry
          /\ IF ret'.kind = "object"
             THEN LET t == ret'.geometry.type IN
                  IF t = schema.geometry
                  THEN written' = Append(written, ret')
                  ELSE IF MultiPartOf(t) = schema.geometry
                  THEN written' = Append(written,
                          [ret' EXCEPT !.geometry.type = schema.geometry,
                                       !.geometry.nesting = NestingOf(t) + 1])
                  ELSE written' = written
             ELSE written' = written]_vars

\* C21 witness: under a MultiPolygon schema the polygon was written as a
\* MultiPolygon one list deeper, and the point the filter returned after it
\* was not written
W21_PolygonWrappedPointDropped ==
    /\ strategy = "filter_7z.ShapeFilter"
    /\ schema.geometry = "MultiPolygon"
    /\ Len(fed) = 2
    /\ HasGeometry(fed[1])
    /\ fed[1].value.geometry.type = "Polygon"
    /\ ret.kind = "object"
    /\ ret.geometry.type = "Point"
    /\ Len(written) = 1
    /\ written[1].geometry.type = "MultiPolygon"
    /\ written[1].geometry.nesting = NestingOf("Polygon") + 1

(* ------------------------ run: the sink's close ------------------------ *)
\* a pass (inference or filter+write) was started and is over
PassOver == strategy # "none" /\ pc \in {"create", "exited"}

\* C22: close() of the pass's sink is invoked exactly once on every path
\* through a pass: normal completion, an exception raised by extraction or
\* while a line is processed, and an archive without a .geojsonl entry.
C22_CloseExactlyOnce ==
    /\ pc \in {"inferring", "writing"} => closes = 0
    /\ PassOver => closes = 1

\* a pass met an archive structural failure: it was started on an archive
\* without a geojsonl entry, or archive.extract raised
StructuralFailure ==
    \/ strategy # "none" /\ entry = None
    \/ error = Raised("ArchiveError")

\* C23: an archive structural failure (no .geojsonl entry, or the archive
\* raising while extracting) is fatal and reaches the caller as that error:
\* it never becomes a normal, successful-looking return, neither in the
\* schema-inference pass nor in the filter+write pass.
C23_StructuralFailureIsFatal ==
    (pc = "exited" /\ StructuralFailure) => (error # None /\ exit_code # 0)

(* -------------------------- SpecSchemaFile ----------------------------- *)
(* infer-schema -i in.7z -o schema.json followed by filter-7z on the same  *)
(* archive, with -s schema.json or with the schema inferred in the run.    *)

\* most lines of the entry
MaxFileLines == 2

\* lines whose property names collide when case is ignored, one of them
\* outside the box 0,0,90,90
FileLines ==
    { JsonLine(Feature(Point(5, 5), Dict(<<[k |-> K_a, v |-> "1"], [k |-> K_A, v |-> "2"]>>))),
      JsonLine(Feature(Point(5, 5), Dict(<<[k |-> K_A, v |-> "1"], [k |-> K_a, v |-> "2"],
                                           [k |-> K_b, v |-> "3"]>>))),
      JsonLine(Feature(Point(100, 5), Dict(<<[k |-> K_a, v |-> "1"]>>))),
      JsonLine(Feature(Point(5, 5), Dict(<<[k |-> K_b, v |-> "\"s\""]>>))) }
FileEntries == {Entry(ls) : ls \in SeqsUpTo(FileLines, MaxFileLines)}

\* filter-7z -i in.7z -o out.gpkg [-b 0,0,90,90] [-s schema.json]
FileArgs ==
    { [output_driver |-> Driver("GPKG"), name_driver |-> Driver("GPKG"),
       filter_file |-> None, pick_filter_feature_id |-> None,
       pick_filter_feature_kv |-> <<>>, bounds |-> b, schema_file |-> sf] :
        b \in {None, PyStr(Chars_0_0_90_90)}, sf \in {None, SchemaPath} }

InitSchemaFile ==
    /\ pc = "infer-schema"
    /\ args \in FileArgs
    /\ entry \in FileEntries
    /\ schema_json = None /\ calls = <<>>
    /\ reads = 0 /\ writer = None /\ output = "absent" /\ exit_code = None
    /\ closes = 0 /\ error = None
    /\ IdleAdapter /\ IdleFilter /\ IdleCollector /\ IdleSchema

\* def get_schema_from_archive(input_path, external_updater=None)
get_schema_from_archive_parameters == {"input_path", "external_updater"}
\* get_schema_from_archive(input_path, limit_to_geom_type=...,
\*                         strict_geom_type_check=...)
infer_schema_call_keywords == {"limit_to_geom_type", "strict_geom_type_check"}
\* a call raises TypeError when a keyword argument names no parameter
BindRaises(parameters, keywords) == keywords \ parameters # {}

\* json.dump of the value get_schema_from_archive returns: the tuple
\* (schema, renames) becomes a JSON array
json_dump(returned) == [kind |-> "array", items |-> <<returned.schema, returned.renames>>]

\* the infer-schema command: the call of get_schema_from_archive at line 30
\* passes two keyword arguments the function does not have, so TypeError
\* leaves the command before the archive is read and no file is written;
\* were the call bound, the returned tuple (never None) would be dumped
infer_schema ==
    /\ pc = "infer-schema"
    /\ pc' = "start"
    /\ IF BindRaises(get_schema_from_archive_parameters, infer_schema_call_keywords)
       THEN /\ error' = Raised("TypeError")
            /\ UNCHANGED <<schema_json, reads>>
       ELSE LET c == CollectedOver(entry.lines, Len(entry.lines)) IN
            /\ error' = None
            /\ reads' = reads + 1
            /\ schema_json' = json_dump(get_schema_from_archive(c.geom_types, c.properties))
    /\ UNCHANGED <<adapterVars, filterVars, collectorVars, schemaVars,
                   args, entry, calls, writer, output, exit_code, closes>>

NextSchemaFile ==
    \/ infer_schema
    \/ NextRun

SpecSchemaFile == InitSchemaFile /\ [][NextSchemaFile]_vars

(* --------------------- the schema file: reference ---------------------- *)
\* what the inference pass of a filter-7z run returns for the entry
InferredForEntry ==
    LET c == CollectedOver(entry.lines, Len(entry.lines)) IN
    get_schema_from_archive(c.geom_types, c.properties)

\* the property names of the entry that are not the first of their
\* lowercase group, in first-seen order
CollidingKeys ==
    LET keys == DictKeys(CollectedOver(entry.lines, Len(entry.lines)).properties) IN
    {keys[i] : i \in {j \in 1..Len(keys) : \E h \in 1..(j - 1) : lower(keys[h]) = lower(keys[j])}}

\* the features the first n lines give under a filter built with these
\* renames and schema properties
RECURSIVE WrittenOver(_, _, _, _, _)
WrittenOver(lines, n, shape, rn, props) ==
    IF n = 0 THEN <<>>
    ELSE LET before == WrittenOver(lines, n - 1, shape, rn, props)
             zero   == [count |-> 0, passed |-> 0, unparsed |-> 0, error_count |-> 0]
             o      == IF shape = None
                       THEN PassThroughFilter_process(rn, props, zero, lines[n])
                       ELSE ShapeFilter_process(shape, rn, props, zero, lines[n])
         IN  IF o.raised \/ o.ret = None THEN before ELSE Append(before, o.ret)

\* C24: a schema file round-trips the renames.  The schema file infer-schema
\* writes for an entry with case-insensitive key collisions holds
\* property_renames with one entry per renamed key; filter-7z run with that
\* file emits the same features (names and values) as a run that infers the
\* schema itself; and property_renames is no longer in the schema when the
\* schema is given to the writer.
C24_SchemaFileRoundTrip ==
    /\ (pc # "infer-schema" /\ CollidingKeys # {}) =>
          /\ schema_json # None
          /\ schema_json.kind = "object"
          /\ Len(DictGetOr(schema_json.items, "property_renames", <<>>))
                = Cardinality(CollidingKeys)
    /\ (pc = "exited" /\ args.schema_file # None /\ error = None) =>
          /\ exit_code = 0
          /\ written = WrittenOver(entry.lines, Len(entry.lines),
                                   IF args.bounds = None THEN None
                                   ELSE get_shape_from_bounds(args.bounds),
                                   InferredForEntry.renames,
                                   InferredForEntry.schema.properties)
          /\ \A i \in 1..Len(schema.keys) : schema.keys[i] # "property_renames"

(* --------------------------- SpecGetSchema ----------------------------- *)
(* A collector of either module (core.infer_schema.SchemaWriter or the     *)
(* older infer_schema.SchemaWriter; their write is the same) whose         *)
(* get_schema is called again and again once the features are collected.   *)

\* the per-key type sets after the loop of the older get_schema, which
\* removes from and pops the collected sets themselves
LegacyTypesAfter(types) ==
    LET t1 == IF "int" \in types /\ "float" \in types THEN types \ {"int"} ELSE types
        t2 == IF "NoneType" \in t1 /\ Cardinality(t1) = 2 THEN t1 \ {"NoneType"} ELSE t1
    IN  IF Cardinality(t2) = 1 THEN {} ELSE t2

\* infer_schema.SchemaWriter.get_schema: the schema returned, and
\* self.geom_types and self.properties as the call leaves them
legacy_get_schema(self_geom_types, self_properties) ==
    LET unchanged == [schema |-> None, geom_types |-> self_geom_types,
                      properties |-> self_properties]
        consolidated ==
            IF Cardinality(self_geom_types) <= 1 THEN self_geom_types
            ELSE IF self_geom_types = {"Point", "MultiPoint"} THEN {"MultiPoint"}
            ELSE IF self_geom_types = {"LineString", "MultiLineString"}
                 THEN {"MultiLineString"}
            ELSE IF self_geom_types = {"Polygon", "MultiPolygon"} THEN {"MultiPolygon"}
            ELSE {}
    IN  IF Cardinality(self_geom_types) = 0 THEN unchanged
        ELSE IF consolidated = {} THEN unchanged
        ELSE [schema |-> [kind |-> "schema",
                          geometry |-> CHOOSE t \in consolidated : TRUE,
                          properties |-> [i \in 1..Len(self_properties) |->
                              [k |-> self_properties[i].k,
                               v |-> UnifyTypes(self_properties[i].v)]]],
              geom_types |-> {},
              properties |-> [i \in 1..Len(self_properties) |->
                                 [k |-> self_properties[i].k,
                                  v |-> LegacyTypesAfter(self_properties[i].v)]]]

SchemaWriterModules == {"core.infer_schema.SchemaWriter", "infer_schema.SchemaWriter"}

\* the features of SpecCollect and two whose property names collide
GetSchemaFeatures ==
    CollectFeatures \cup
    { Feature(Point(5, 5), Dict(NumberedDict(<<K_a, K_A>>))),
      Feature(Point(5, 5), Dict(NumberedDict(<<K_A_2, K_A>>))) }

InitGetSchema ==
    /\ pc = "collecting"
    /\ strategy \in SchemaWriterModules
    /\ filter_shape = None /\ property_renames = <<>> /\ schema_properties = <<>>
    /\ IdleLegacy
    /\ count = 0 /\ passed = 0 /\ unparsed = 0 /\ error_count = 0
    /\ fed = <<>> /\ ret = None /\ written = <<>> /\ info = None
    /\ geom_types = {} /\ properties = <<>>
    /\ IdleSchema /\ IdleAdapter /\ IdleRun

\* writer.get_schema(), the first time or once more
call_writer_get_schema ==
    /\ pc \in {"collecting", "called"}
    /\ pc' = "called"
    /\ IF strategy = "core.infer_schema.SchemaWriter"
       THEN LET r == get_schema(geom_types, properties) IN
            /\ schema' = r.schema
            /\ renames' = r.renames
            /\ UNCHANGED <<geom_types, properties>>
       ELSE LET r == legacy_get_schema(geom_types, properties) IN
            /\ schema' = r.schema
            /\ renames' = <<>>
            /\ geom_types' = r.geom_types
            /\ properties' = r.properties
    /\ UNCHANGED <<adapterVars, filterVars, renamed>>
    /\ UNCHANGED runVars

NextGetSchema ==
    \/ \E feature \in GetSchemaFeatures : collector_write(feature)
    \/ call_writer_get_schema

SpecGetSchema == InitGetSchema /\ [][NextGetSchema]_vars

\* C25: collision resolution is deterministic and repeatable.  A second
\* call of get_schema on the same collector returns the same renames and
\* the same schema as the call before it, and a call of get_schema changes
\* neither the collected geometry types nor the per-key type sets.
C25_GetSchemaRepeatable ==
    [][pc' = "called" =>
          /\ geom_types' = geom_types
          /\ properties' = properties
          /\ pc = "called" => (schema' = schema /\ renames' = renames)]_vars

(* ----------------------- pass: empty geometries ------------------------ *)
\* the geometry is null, or its coordinates hold no position
EmptyGeometry(g) ==
    \/ g = None
    \/ g.kind = "geom" /\ (g.x1 > g.x2 \/ g.y1 > g.y2)

\* C26: a feature whose geometry is empty (coordinates == [] or a first
\* nested coordinate array of length 0) or null is dropped by the filter,
\* whichever strategy is in use, and is never written to the output.
C26_EmptyGeometryDropped ==
    strategy \in {"ShapeFilter", "PassThroughFilter"} =>
        /\ \A i \in 1..Len(written) : ~EmptyGeometry(written[i].geometry)
        /\ (/\ fed # <<>>
            /\ Last(fed).text = "json"
            /\ Last(fed).value.kind = "object"
            /\ EmptyGeometry(Last(fed).value.geometry)
            /\ pc # "failed") => ret = None

(* ----------------------------- SpecOrder ------------------------------- *)
(* One filter+write pass with the calls it makes recorded in order.  The   *)
(* entry is a sequence of lines; the archive pushes it as tokens, a line's *)
(* text and then its newline, so that a chunk may end between the two.     *)
(* pc is "extracting" between two write(data) calls, "in_write" inside     *)
(* one, then "flushed", "failed" (an exception left the try block) and     *)
(* "closed".                                                               *)

\* most lines of the entry, and most tokens of one chunk
MaxOrderLines == 2
MaxOrderChunk == 3

\* one call: what was called, for which line (0: none), within which
\* write(data) call (0: none, or flush_last_line), and for filter.process
\* what came back ("feature", "None" or "raised")
Call(name, line, chunk, result) ==
    [call |-> name, line |-> line, chunk |-> chunk, result |-> result]

\* process_line reporting the counters before it writes the feature
process_line_calls_report_first(n, chunk, o, w) ==
    IF o.raised THEN << Call("filter.process", n, chunk, "raised") >>
    ELSE IF o.ret = None
    THEN << Call("filter.process", n, chunk, "None"),
            Call("writer.size", n, chunk, ""),
            Call("update_other_info", n, chunk, "") >>
    ELSE << Call("filter.process", n, chunk, "feature"),
            Call("writer.size", n, chunk, ""),
            Call("update_other_info", n, chunk, ""),
            Call("writer.write", n, chunk, "") >>

\* the calls of StreamingPy7zIO.process_line for line n, given the outcome o
\* of filter.process and the outcome w of writer.write
process_line_calls(n, chunk, o, w) ==
    IF o.raised THEN << Call("filter.process", n, chunk, "raised") >>
    ELSE IF o.ret = None
    THEN << Call("filter.process", n, chunk, "None"),
            Call("writer.size", n, chunk, ""),
            Call("update_other_info", n, chunk, "") >>
    ELSE IF w.exc
    THEN << Call("filter.process", n, chunk, "feature"),
            Call("writer.write", n, chunk, "") >>
    ELSE << Call("filter.process", n, chunk, "feature"),
            Call("writer.write", n, chunk, ""),
            Call("writer.size", n, chunk, ""),
            Call("update_other_info", n, chunk, "") >>

\* the entry: a point inside the box 0,0,10,10, a point outside it, a line
\* that is not JSON and the line 5; the last line may lack its newline
OrderLines ==
    { JsonLine(Feature(Point(5, 5), Dict(<<[k |-> K_a, v |-> "1"]>>))),
      JsonLine(Feature(Point(15, 15), Dict(<<[k |-> K_a, v |-> "2"]>>))),
      Garbage,
      JsonLine([kind |-> "number"]) }
OrderEntries ==
    { [kind |-> "entry", lines |-> ls, terminated |-> t] :
        ls \in SeqsUpTo(OrderLines, MaxOrderLines), t \in BOOLEAN } \
    { [kind |-> "entry", lines |-> <<>>, terminated |-> FALSE] }

\* the tokens of the entry: text, newline, text, newline, ...
Tokens == 2 * Len(entry.lines) - (IF entry.terminated THEN 0 ELSE 1)

\* the number of write(data) calls so far
Chunks == Len(SelectSeq(calls, LAMBDA e : e.call = "write"))

InitOrder ==
    /\ pc = "extracting"
    /\ strategy \in {"ShapeFilter", "PassThroughFilter"}
    /\ filter_shape = IF strategy = "ShapeFilter" THEN Box10 ELSE None
    /\ property_renames = <<>> /\ schema_properties = <<>>
    /\ IdleLegacy
    /\ count = 0 /\ passed = 0 /\ unparsed = 0 /\ error_count = 0
    /\ fed = <<>> /\ ret = None /\ written = <<>> /\ info = None
    /\ IdleAdapter /\ IdleCollector /\ IdleSchema
    /\ args = None /\ schema_json = None /\ reads = 0
    /\ writer = "created" /\ output = "absent" /\ exit_code = None
    /\ closes = 0 /\ error = None
    /\ entry \in OrderEntries
    /\ calls = <<>>

\* what a step of the pass leaves alone
OrderUnchanged ==
    UNCHANGED <<input, buffer, forwarded, strategy, filter_shape, property_renames,
                schema_properties, legacyVars, collectorVars, schemaVars,
                args, entry, schema_json, reads, writer, exit_code>>

\* the archive pushes the next m tokens: StreamingPy7zIO.write(data) up to
\* the loop over the lines this chunk has completed
archive_write(m) ==
    /\ pc = "extracting"
    /\ pos < Tokens
    /\ pos' = pos + Min(m, Tokens - pos)
    /\ length' = length + Min(m, Tokens - pos)
    /\ calls' = Append(calls, Call("write", 0, Chunks + 1, ""))
    /\ pc' = "in_write"
    /\ UNCHANGED <<reported, count, passed, unparsed, error_count,
                   fed, ret, written, info, output, closes, error>>
    /\ OrderUnchanged

\* StreamingPy7zIO.process_line(line) for the next line of the entry, as
\* part of the write(data) call numbered chunk (0: of flush_last_line); the
\* first feature written creates the output file
OrderProcessLine(chunk, before, then) ==
    LET n == Len(fed) + 1
        o == filter_process(entry.lines[n])
        w == FionaWriter_write(written, o.ret)
        failed == o.raised \/ (o.ret # None /\ w.exc)
    IN  /\ fed' = Append(fed, entry.lines[n])
        /\ count' = o.c.count /\ passed' = o.c.passed
        /\ unparsed' = o.c.unparsed /\ error_count' = o.c.error_count
        /\ ret' = IF o.raised THEN [kind |-> "raised"] ELSE o.ret
        /\ written' = IF o.raised \/ o.ret = None THEN written ELSE w.written
        /\ output' = IF o.raised \/ o.ret = None THEN output ELSE "exists"
        /\ info' = IF failed THEN info
                   ELSE [processed |-> o.c.count, passed |-> o.c.passed]
        /\ calls' = calls \o before \o process_line_calls(n, chunk, o, w)
        /\ pc' = IF failed THEN "failed" ELSE then
        /\ error' = IF failed THEN Raised("LineError") ELSE error

\* the loop of write(data): self.process_line(line) for the next line
write_process_line ==
    /\ pc = "in_write"
    /\ Len(fed) < pos \div 2
    /\ OrderProcessLine(Chunks, <<>>, "in_write")
    /\ UNCHANGED <<pos, length, reported, closes>>
    /\ OrderUnchanged

\* the end of write(data): self.updater.update_size(len(data)) and return
write_return ==
    /\ pc = "in_write"
    /\ Len(fed) = pos \div 2
    /\ reported' = length
    /\ calls' = calls \o << Call("update_size", 0, Chunks, ""),
                            Call("return", 0, Chunks, "") >>
    /\ pc' = "extracting"
    /\ UNCHANGED <<pos, length, count, passed, unparsed, error_count,
                   fed, ret, written, info, output, closes, error>>
    /\ OrderUnchanged

\* archive.extract raises between two write(data) calls
archive_extract_raises ==
    /\ pc = "extracting"
    /\ pc' = "failed"
    /\ error' = Raised("ArchiveError")
    /\ UNCHANGED <<pos, length, reported, count, passed, unparsed, error_count,
                   fed, ret, written, info, calls, output, closes>>
    /\ OrderUnchanged

\* factory.streaming_io.flush_last_line(), once archive.extract has
\* returned: the buffer holds the last line when it has no newline
streaming_io_flush_last_line ==
    /\ pc = "extracting"
    /\ pos = Tokens
    /\ IF entry.terminated
       THEN /\ calls' = Append(calls, Call("flush_last_line", 0, 0, ""))
            /\ pc' = "flushed"
            /\ UNCHANGED <<count, passed, unparsed, error_count,
                           fed, ret, written, info, output, error>>
       ELSE OrderProcessLine(0, << Call("flush_last_line", 0, 0, "") >>, "flushed")
    /\ UNCHANGED <<pos, length, reported, closes>>
    /\ OrderUnchanged

\* writer.close() in the finally clause of process_archive; the collection
\* is opened by close() if no feature was written
finally_writer_close ==
    /\ pc \in {"flushed", "failed"}
    /\ pc' = "closed"
    /\ calls' = Append(calls, Call("writer.close", 0, 0, ""))
    /\ closes' = closes + 1
    /\ output' = "exists"
    /\ UNCHANGED <<pos, length, reported, count, passed, unparsed, error_count,
                   fed, ret, written, info, error>>
    /\ OrderUnchanged

NextOrder ==
    \/ \E m \in 1..MaxOrderChunk : archive_write(m)
    \/ write_process_line
    \/ write_return
    \/ archive_extract_raises
    \/ streaming_io_flush_last_line
    \/ finally_writer_close

SpecOrder == InitOrder /\ [][NextOrder]_vars

\* the call b may come directly after the call a
Follows(a, b) ==
    CASE a.call = "write" ->
            \/ b.call = "filter.process" /\ b.chunk = a.chunk
            \/ b.call = "update_size" /\ b.chunk = a.chunk
      [] a.call = "filter.process" ->
            CASE a.result = "feature" ->
                    b.call = "writer.write" /\ b.line = a.line /\ b.chunk = a.chunk
              [] a.result = "None" ->
                    b.call = "writer.size" /\ b.line = a.line /\ b.chunk = a.chunk
              [] OTHER -> b.call = "writer.close"
      [] a.call = "writer.write" ->
            \/ b.call = "writer.size" /\ b.line = a.line /\ b.chunk = a.chunk
            \/ b.call = "writer.close"
      [] a.call = "writer.size" ->
            b.call = "update_other_info" /\ b.line = a.line /\ b.chunk = a.chunk
      [] a.call = "update_other_info" ->
            IF a.chunk = 0 THEN b.call = "writer.close"
            ELSE \/ b.call = "filter.process" /\ b.line = a.line + 1
                                              /\ b.chunk = a.chunk
                 \/ b.call = "update_size" /\ b.chunk = a.chunk
      [] a.call = "update_size" -> b.call = "return" /\ b.chunk = a.chunk
      [] a.call = "return" ->
            \/ b.call = "write" /\ b.chunk = a.chunk + 1
            \/ b.call \in {"flush_last_line", "writer.close"}
      [] a.call = "flush_last_line" ->
            b.call \in {"filter.process", "writer.close"} /\ b.chunk = 0
      [] OTHER -> FALSE

\* the calls of one kind, in the order they were made
CallsOf(name) == SelectSeq(calls, LAMBDA e : e.call = name)

\* C27: within one pass the calls come in a fixed order.  Chunks are
\* consumed in push order; within a chunk the completed lines are handled
\* in input order, filter.process before writer.write (made only for an
\* accepted feature) before the line's counter report, all before the
\* chunk's single update_size and the return of write(); once extraction
\* has completed flush_last_line is called exactly once, before
\* writer.close; writer.close is the last call; the features written are
\* the accepted lines, in input order.
C27_CallsInFixedOrder ==
    pc \in {"extracting", "in_write", "flushed", "failed", "closed"} =>
    LET processed == CallsOf("filter.process")
        pushed    == CallsOf("write")
        \* the writer.write calls that returned
        writes    == SelectSeq(calls, LAMBDA e :
                         /\ e.call = "writer.write"
                         /\ \E i \in 1..Len(calls) :
                               calls[i].call = "writer.size" /\ calls[i].line = e.line)
        flushes   == CallsOf("flush_last_line")
    IN  /\ \A i \in 1..(Len(calls) - 1) : Follows(calls[i], calls[i + 1])
        /\ calls # <<>> => calls[1].call \in {"write", "flush_last_line", "writer.close"}
        /\ \A i \in 1..Len(pushed) : pushed[i].chunk = i
        /\ \A i \in 1..Len(processed) : processed[i].line = i
        /\ \A i \in 1..Len(pushed) :
              Len(SelectSeq(calls, LAMBDA e : e.call = "update_size" /\ e.chunk = i)) <= 1
        /\ Len(flushes) <= 1
        /\ flushes # <<>> =>
              /\ pos = Tokens
              /\ Len(CallsOf("return")) = Len(pushed)
        /\ (pc = "closed" /\ error = None) => Len(flushes) = 1
        /\ pc = "closed" <=> (calls # <<>> /\ Last(calls).call = "writer.close")
        /\ Len(written) = Len(writes)
        /\ \A j \in 1..Len(writes) :
              /\ written[j].geometry = entry.lines[writes[j].line].value.geometry
              /\ j > 1 => writes[j - 1].line < writes[j].line

\* a pass over two chunks that wrote a feature, rejected a line, processed
\* the unterminated last line in flush_last_line and closed the writer
W27_TwoChunksFlushedClosed ==
    /\ pc = "closed" /\ error = None
    /\ calls # <<>>
    /\ Len(CallsOf("write")) >= 2
    /\ written # <<>>
    /\ \E i \in 1..Len(calls) : calls[i].call = "filter.process" /\ calls[i].result = "None"
    /\ \E i \in 1..Len(calls) : calls[i].call = "filter.process" /\ calls[i].chunk = 0

(* ------------------------- counter accounting -------------------------- *)
\* C28: the counters of one ShapeFilter never decrease; every line is
\* classified at most once, so passed + unparsed + error_count <= count in
\* every reachable state; and passed grows by one exactly on the lines for
\* which process returned a feature (a line whose processing ends in an
\* exception is counted in error_count and not in passed).
C28_CounterAccounting ==
    /\ [][strategy = "ShapeFilter" =>
            /\ count' >= count /\ passed' >= passed
            /\ unparsed' >= unparsed /\ error_count' >= error_count
            /\ fed' # fed =>
                  passed' - passed = (IF ret'.kind = "object" THEN 1 ELSE 0)]_vars
    /\ [](strategy = "ShapeFilter" => passed + unparsed + error_count <= count)

(* ------------------------- collision resolution ------------------------ *)
\* the i-th observed key is the first of its lowercase group
FirstInGroup(i) ==
    \A j \in 1..(i - 1) : lower(properties[j].k) # lower(properties[i].k)

\* the name get_schema gave the j-th observed key
ChosenName(j) == DictGetOr(renames, properties[j].k, properties[j].k)

\* key_n collides, lowercased, with no name chosen for the keys before the i-th
FreeSuffix(i, n) ==
    \A j \in 1..(i - 1) :
        lower(ChosenName(j)) # lower(WithSuffix(properties[i].k, n))

\* C29: collision resolution follows the grouping rule for every first-seen
\* order of keys.  The first-seen key of each lowercase group keeps its
\* name and is not in renames; every later key k of the group is in
\* renames, mapped to k_n for the smallest n >= 2 whose lowercase form is
\* the lowercase form of no name chosen so far; so renames holds exactly
\* the keys that are not first in their lowercase group.
C29_RenamesFollowGrouping ==
    pc = "schema" =>
        \A i \in 1..Len(properties) :
            LET key == properties[i].k IN
            IF FirstInGroup(i)
            THEN ~DictHas(renames, key)
            ELSE /\ DictHas(renames, key)
                 /\ \E n \in 2..(Len(properties) + 2) :
                       /\ DictAt(renames, key) = WithSuffix(key, n)
                       /\ FreeSuffix(i, n)
                       /\ \A m \in 2..(n - 1) : ~FreeSuffix(i, m)

(* ---------------------------- SpecInference ---------------------------- *)
(* The inference pass on its own: every line goes through                  *)
(* SchemaFilter.process and SchemaWriter.write, the size of the collector  *)
(* is reported after each line, and get_schema ends the pass.              *)

\* most lines of the entry
MaxInferLines == 3

\* the lines: features with the keys a, b and A, with values of several
\* types, with and without a geometry, and a line that is not JSON
InferLines ==
    { JsonLine(Feature(g, Dict(<<[k |-> K_a, v |-> "1"]>>))) :
        g \in {None, Point(5, 5), Box(0, 0, 10, 10)} }
    \cup { JsonLine(Feature(Point(5, 5), Dict(d))) :
             d \in { <<[k |-> K_a, v |-> "2.2"]>>,
                     <<[k |-> K_b, v |-> "null"]>>,
                     <<[k |-> K_b, v |-> "\"s\""], [k |-> K_a, v |-> "1"]>>,
                     <<[k |-> K_A, v |-> "1"]>> } }
    \cup { Garbage }

InitInference ==
    /\ pc = "collecting"
    /\ geom_types = {} /\ properties = <<>>
    /\ IdleSchema /\ IdleAdapter /\ IdleFilter
    /\ IdleRun

\* StreamingPy7zIO.process_line(line) in the inference pass:
\* schema_filter.process, schema_writer.write, schema_writer.size and the
\* counter report
inference_process_line(line) ==
    /\ pc = "collecting"
    /\ Len(fed) < MaxInferLines
    /\ LET o == SchemaFilter_process(Counters, line)
           w == SchemaWriter_write(geom_types, properties, o.ret)
       IN  /\ fed' = Append(fed, line)
           /\ count' = o.c.count /\ passed' = o.c.passed
           /\ unparsed' = o.c.unparsed /\ error_count' = o.c.error_count
           /\ ret' = o.ret
           /\ IF o.ret = None
              THEN /\ UNCHANGED <<geom_types, properties, pc>>
                   /\ info' = [processed |-> o.c.count, passed |-> o.c.passed,
                               output_size |-> SchemaWriter_size]
              ELSE /\ geom_types' = w.geom_types
                   /\ properties' = w.properties
                   /\ IF w.exc
                      THEN pc' = "failed" /\ UNCHANGED info
                      ELSE /\ UNCHANGED pc
                           /\ info' = [processed |-> o.c.count, passed |-> o.c.passed,
                                       output_size |-> SchemaWriter_size]
    /\ UNCHANGED <<adapterVars, schemaVars, strategy, filter_shape, property_renames,
                   schema_properties, legacyVars, written>>
    /\ UNCHANGED runVars

NextInference ==
    \/ \E line \in InferLines : inference_process_line(line)
    \/ call_get_schema

SpecInference == InitInference /\ [][NextInference]_vars

\* the items of a dict, regardless of their order
AsMap(d) == {d[i] : i \in 1..Len(d)}

\* no two observed keys are equal when lowercased
NoKeyCollision ==
    \A i, j \in 1..Len(properties) :
        i # j => lower(properties[i].k) # lower(properties[j].k)

\* what get_schema returns after a pass over the lines fed, taken in the
\* order p
SchemaOfOrder(p) ==
    LET c == CollectedOver([i \in 1..Len(fed) |-> fed[p[i]]], Len(fed))
    IN  get_schema(c.geom_types, c.properties).schema

\* C30: schema inference does not depend on line order.  For any
\* permutation of the same input lines whose property keys have no
\* case-insensitive collision, get_schema returns the same geometry list
\* and the same inferred type for every property (only the order of the
\* entries of the properties map may differ); and the collector reports
\* size 0 throughout the pass.
C30_InferenceOrderIndependent ==
    /\ info # None => info.output_size = 0
    /\ (pc = "schema" /\ NoKeyCollision) =>
          \A p \in Permutations(1..Len(fed)) :
              LET other == SchemaOfOrder(p) IN
              /\ other # None
              /\ other.geometry = schema.geometry
              /\ AsMap(other.properties) = AsMap(schema.properties)

\* C30 witness: three lines gave geometry [Point, Polygon] and the
\* properties b: str, a: float; taken in reverse they give the same types
\* with a before b
W30_SameTypesOtherOrder ==
    /\ pc = "schema"
    /\ Len(fed) = 3
    /\ info # None
    /\ schema.geometry = <<"Point", "Polygon">>
    /\ schema.properties = <<[k |-> K_b, v |-> "str"], [k |-> K_a, v |-> "float"]>>
    /\ SchemaOfOrder([i \in 1..3 |-> 4 - i]).properties =
           <<[k |-> K_a, v |-> "float"], [k |-> K_b, v |-> "str"]>>

====
